---- MODULE Spec2Model ----
(***************************************************************************)
(* A model of the arraydeque repository: the ArrayDeque circular buffer in *)
(* its mask-based form (unnamed/part_000, lines 597-1042) and its          *)
(* _wrapRight-based form (src/ArrayDeque.ts), and the BlockingQueue built  *)
(* on two ArrayDeques (unnamed/part_003, unnamed/part_004).                *)
(*                                                                         *)
(* An object is a record of its fields, a method is an operator from the   *)
(* object (and the arguments) to a record                                  *)
(*     [this |-> the object afterwards, ret |-> the value returned,        *)
(*      throws |-> "none" or the name of the error thrown],                *)
(* and an action applies one public method to the object under test.       *)
(* A JavaScript array is a sequence: slot i of the array is element i + 1. *)
(***************************************************************************)
EXTENDS Integers, Sequences, FiniteSets, TLC

\* ------------------------------------------------------------------ bounds

\* The elements inserted are 1..MaxVal.
MaxVal == 2
\* No insertion is made into a deque that holds MaxSize elements.
MaxSize == 4
\* The constructor's capacity hints are 0..MaxHint.
MaxHint == 3
\* ensureCapacity is called with 0..MaxEnsure.
MaxEnsure == 5
\* Calls made on the BlockingQueues (enqueue, dequeue, tee, the iterator's
\* next), all queues together.
MaxCalls == 6
\* The constructor is called with the capacities 2^k - 1, 2^k and 2^k + 1,
\* for k in 0..MaxExp.
MaxExp == 40
\* A buffer the constructor makes is written down slot by slot when it has
\* at most MaxBuffer slots.
MaxBuffer == 64
\* An iterator's next() is called at most MaxDone times after it has first
\* reported done.
MaxDone == 2
\* In SpecFill, no insertion is made into a deque that holds MaxFill
\* elements.
MaxFill == 5
\* In SpecShift, the capacities are 2^k - 1, 2^k and 2^k + 1 for k in
\* 0..MaxShift, and the turns of the constructor's loop are counted up to
\* MaxTurns.
MaxShift == 31
MaxTurns == 40
\* In SpecTail, the caller makes at most MaxTailCalls calls, the loop that
\* fills a new deque apart.
MaxTailCalls == 3

Values == 1..MaxVal

\* ------------------------------------------------------- JavaScript values

\* undefined, and an array hole (the code and its tests treat both as the
\* empty marker of a slot).
undefined == 0

Ok(this, ret) == [this |-> this, ret |-> ret, throws |-> "none"]

Throw(this, error) == [this |-> this, ret |-> undefined, throws |-> error]

\* new Array(n): n holes.
NewArray(n) == [i \in 1..n |-> undefined]

\* array[index]: undefined outside 0 .. length - 1.
ArrayGet(array, index) ==
    IF index >= 0 /\ index < Len(array) THEN array[index + 1] ELSE undefined

\* array[index] = value: a write at or past the length extends the array
\* with holes; a negative index names a property, not an element.
ArraySet(array, index, value) ==
    LET length == Len(array)
    IN  IF index < 0 THEN array
        ELSE [i \in 1..(IF index < length THEN length ELSE index + 1) |->
                 IF i = index + 1 THEN value
                 ELSE IF i <= length THEN array[i] ELSE undefined]

\* array.length = n: truncates, or extends with holes.
ArraySetLength(array, n) ==
    [i \in 1..n |-> IF i <= Len(array) THEN array[i] ELSE undefined]

\* array.slice(from, to) for 0 <= from <= to.
ArraySlice(array, from, to) ==
    LET end == IF to < Len(array) THEN to ELSE Len(array)
    IN  [i \in 1..(IF end > from THEN end - from ELSE 0) |-> array[from + i]]

RECURSIVE BitAndNat(_, _)
\* Bitwise and of two naturals.
BitAndNat(a, b) ==
    IF a = 0 \/ b = 0 THEN 0
    ELSE (a % 2) * (b % 2) + 2 * BitAndNat(a \div 2, b \div 2)

\* x & y for -2^30 <= x < 2^30 and 0 <= y < 2^30: the bits of a negative x
\* are those of its two's complement, of which y keeps the low 30 at most.
BitAnd(x, y) == BitAndNat(IF x < 0 THEN x + 2^30 ELSE x, y)

\* ---------------------------------------------------- capacity numbers
\* A capacity is a JavaScript number, which holds integers beyond 2^31 - 1
\* exactly: the non-negative integer hi * 2^30 + lo, with 0 <= lo < 2^30.

\* The number n, for an integer 0 <= n < 2^31.
Num(n) == [hi |-> n \div 2^30, lo |-> n % 2^30]

\* a < b
NumLess(a, b) == a.hi < b.hi \/ (a.hi = b.hi /\ a.lo < b.lo)

\* a <= b
NumLeq(a, b) == ~NumLess(b, a)

\* a * 2
NumDouble(a) ==
    [hi |-> 2 * a.hi + (2 * a.lo) \div 2^30, lo |-> (2 * a.lo) % 2^30]

\* a + 1
NumSucc(a) ==
    IF a.lo = 2^30 - 1 THEN [hi |-> a.hi + 1, lo |-> 0]
    ELSE [hi |-> a.hi, lo |-> a.lo + 1]

\* a - 1, for a > 0
NumPred(a) ==
    IF a.lo = 0 THEN [hi |-> a.hi - 1, lo |-> 2^30 - 1]
    ELSE [hi |-> a.hi, lo |-> a.lo - 1]

\* The integer a, for a < 2^31: an array length or an index mask.
NumToInt(a) == a.hi * 2^30 + a.lo

\* ------------------------------ ArrayDeque, mask-based (unnamed/part_000)
\* The object: [size, _head, _buffer, _indexMask].

\* ArrayDeque.MAX_CAPACITY = Math.pow(2, 31)
MAX_CAPACITY == [hi |-> 2, lo |-> 0]

\* A mutant of _assertCapacityValid: MAX_CAPACITY itself is refused.
_assertCapacityValid_refusesMax(capacity) == NumLess(capacity, MAX_CAPACITY)

\* ArrayDeque._assertCapacityValid: TRUE when it returns, FALSE when it
\* throws RangeError.
_assertCapacityValid(capacity) == ~NumLess(MAX_CAPACITY, capacity)

RECURSIVE constructorLoop_doublesOnEqual(_, _)
\* A mutant of the constructor's loop: it goes on while
\* pow2Capacity <= capacity.
constructorLoop_doublesOnEqual(pow2Capacity, capacity) ==
    IF NumLeq(pow2Capacity, capacity)
    THEN constructorLoop_doublesOnEqual(NumDouble(pow2Capacity), capacity)
    ELSE pow2Capacity

RECURSIVE constructorLoop(_, _)
\* The constructor's loop: while (pow2Capacity < capacity) pow2Capacity *= 2.
constructorLoop(pow2Capacity, capacity) ==
    IF NumLess(pow2Capacity, capacity)
    THEN constructorLoop(NumDouble(pow2Capacity), capacity)
    ELSE pow2Capacity

\* The argument of new ArrayDeque() called with no capacity.
NoCapacity == [hi |-> -1, lo |-> 0]

\* The constructor up to its call of _assertCapacityValid: pow2Capacity.
constructorCapacity(capacity) ==
    IF capacity = NoCapacity THEN Num(16) ELSE constructorLoop(Num(1), capacity)

\* new ArrayDeque(capacity)
constructor(capacity) ==
    LET pow2Capacity == constructorCapacity(capacity)
    IN  IF ~_assertCapacityValid(pow2Capacity)
        THEN Throw(undefined, "RangeError")
        ELSE Ok([size |-> 0,
                 _head |-> 0,
                 _buffer |-> NewArray(NumToInt(pow2Capacity)),
                 _indexMask |-> NumToInt(pow2Capacity) - 1], undefined)

RECURSIVE ensureCapacityLoop_doublesOnEqual(_, _)
\* A mutant of ensureCapacity's loop: it goes on while
\* pow2Capacity <= capacity.
ensureCapacityLoop_doublesOnEqual(pow2Capacity, capacity) ==
    LET doubled == NumDouble(pow2Capacity)
    IN  IF NumLeq(doubled, capacity)
        THEN ensureCapacityLoop_doublesOnEqual(doubled, capacity)
        ELSE doubled

RECURSIVE ensureCapacityLoop(_, _)
\* do { pow2Capacity *= 2 } while (pow2Capacity < capacity)
ensureCapacityLoop(pow2Capacity, capacity) ==
    LET doubled == NumDouble(pow2Capacity)
    IN  IF NumLess(doubled, capacity)
        THEN ensureCapacityLoop(doubled, capacity)
        ELSE doubled

\* A mutant of _resize: the relocation copies from slot i, not from
\* slot (head + i) & mask.
_resize_ignoresHead(this, pow2Capacity) ==
    IF ~_assertCapacityValid(pow2Capacity)
    THEN Throw(this, "RangeError")
    ELSE IF this._head + this.size <= Len(this._buffer)
    THEN Ok([this EXCEPT
                !._buffer = ArraySetLength(this._buffer, NumToInt(pow2Capacity)),
                !._indexMask = NumToInt(pow2Capacity) - 1], undefined)
    ELSE Ok([this EXCEPT
                !._buffer =
                    [i \in 1..NumToInt(pow2Capacity) |->
                        IF i <= this.size
                        THEN ArrayGet(this._buffer,
                                 BitAnd(i - 1, this._indexMask))
                        ELSE undefined],
                !._head = 0,
                !._indexMask = NumToInt(pow2Capacity) - 1], undefined)

\* A mutant of _resize: the capacity is asserted valid after the head has
\* been reset, not first.
_resize_assertsLast(this, pow2Capacity) ==
    IF ~_assertCapacityValid(pow2Capacity)
    THEN Throw([this EXCEPT !._head = 0], "RangeError")
    ELSE IF this._head + this.size <= Len(this._buffer)
    THEN Ok([this EXCEPT
                !._buffer = ArraySetLength(this._buffer, NumToInt(pow2Capacity)),
                !._indexMask = NumToInt(pow2Capacity) - 1], undefined)
    ELSE Ok([this EXCEPT
                !._buffer =
                    [i \in 1..NumToInt(pow2Capacity) |->
                        IF i <= this.size
                        THEN ArrayGet(this._buffer,
                                 BitAnd(this._head + (i - 1), this._indexMask))
                        ELSE undefined],
                !._head = 0,
                !._indexMask = NumToInt(pow2Capacity) - 1], undefined)

\* A mutant of _resize: the index mask is left as it was.
_resize_keepsMask(this, pow2Capacity) ==
    IF ~_assertCapacityValid(pow2Capacity)
    THEN Throw(this, "RangeError")
    ELSE IF this._head + this.size <= Len(this._buffer)
    THEN Ok([this EXCEPT
                !._buffer = ArraySetLength(this._buffer, NumToInt(pow2Capacity))],
            undefined)
    ELSE Ok([this EXCEPT
                !._buffer =
                    [i \in 1..NumToInt(pow2Capacity) |->
                        IF i <= this.size
                        THEN ArrayGet(this._buffer,
                                 BitAnd(this._head + (i - 1), this._indexMask))
                        ELSE undefined],
                !._head = 0], undefined)

\* A mutant of _resize: the elements are moved to the front of a new buffer
\* whether they wrap around or not.
_resize_alwaysRelocates(this, pow2Capacity) ==
    IF ~_assertCapacityValid(pow2Capacity)
    THEN Throw(this, "RangeError")
    ELSE Ok([this EXCEPT
                !._buffer =
                    [i \in 1..NumToInt(pow2Capacity) |->
                        IF i <= this.size
                        THEN ArrayGet(this._buffer,
                                 BitAnd(this._head + (i - 1), this._indexMask))
                        ELSE undefined],
                !._head = 0,
                !._indexMask = NumToInt(pow2Capacity) - 1], undefined)

\* A mutant of _resize: after the elements have been moved to the front of
\* the new buffer, the head is left where it was.
_resize_keepsHead(this, pow2Capacity) ==
    IF ~_assertCapacityValid(pow2Capacity)
    THEN Throw(this, "RangeError")
    ELSE IF this._head + this.size <= Len(this._buffer)
    THEN Ok([this EXCEPT
                !._buffer = ArraySetLength(this._buffer, NumToInt(pow2Capacity)),
                !._indexMask = NumToInt(pow2Capacity) - 1], undefined)
    ELSE Ok([this EXCEPT
                !._buffer =
                    [i \in 1..NumToInt(pow2Capacity) |->
                        IF i <= this.size
                        THEN ArrayGet(this._buffer,
                                 BitAnd(this._head + (i - 1), this._indexMask))
                        ELSE undefined],
                !._indexMask = NumToInt(pow2Capacity) - 1], undefined)

\* ArrayDeque._resize
_resize(this, pow2Capacity) ==
    IF ~_assertCapacityValid(pow2Capacity)
    THEN Throw(this, "RangeError")
    ELSE IF this._head + this.size <= Len(this._buffer)
    THEN Ok([this EXCEPT
                !._buffer = ArraySetLength(this._buffer, NumToInt(pow2Capacity)),
                !._indexMask = NumToInt(pow2Capacity) - 1], undefined)
    ELSE Ok([this EXCEPT
                !._buffer =
                    [i \in 1..NumToInt(pow2Capacity) |->
                        IF i <= this.size
                        THEN ArrayGet(this._buffer,
                                 BitAnd(this._head + (i - 1), this._indexMask))
                        ELSE undefined],
                !._head = 0,
                !._indexMask = NumToInt(pow2Capacity) - 1], undefined)

\* A mutant of ensureCapacity: it returns at once only when capacity is below
\* the buffer length, not when it equals it.
ensureCapacity_growsOnEqual(this, capacity) ==
    IF NumLess(capacity, Num(Len(this._buffer)))
    THEN Ok(this, undefined)
    ELSE _resize(this, ensureCapacityLoop(Num(Len(this._buffer)), capacity))

\* ArrayDeque.ensureCapacity
ensureCapacity(this, capacity) ==
    IF NumLeq(capacity, Num(Len(this._buffer)))
    THEN Ok(this, undefined)
    ELSE _resize(this, ensureCapacityLoop(Num(Len(this._buffer)), capacity))

\* ArrayDeque.unshift
unshift(this, value) ==
    LET grown == IF this.size = Len(this._buffer)
                 THEN _resize(this, NumDouble(Num(Len(this._buffer))))
                 ELSE Ok(this, undefined)
        t == grown.this
        newHead == BitAnd(t._head - 1, t._indexMask)
    IN  IF grown.throws # "none" THEN grown
        ELSE Ok([t EXCEPT !._buffer = ArraySet(t._buffer, newHead, value),
                          !._head = newHead,
                          !.size = t.size + 1], undefined)

\* A mutant of push: the element is inserted at the front.
push_atFront(this, value) == unshift(this, value)

\* A mutant of push: the buffer is grown one insertion early, when the
\* insertion fills it.
push_growsEarly(this, value) ==
    LET grown == IF this.size + 1 >= Len(this._buffer)
                 THEN _resize(this, NumDouble(Num(Len(this._buffer))))
                 ELSE Ok(this, undefined)
        t == grown.this
        newTail == BitAnd(t._head + t.size, t._indexMask)
    IN  IF grown.throws # "none" THEN grown
        ELSE Ok([t EXCEPT !._buffer = ArraySet(t._buffer, newTail, value),
                          !.size = t.size + 1], undefined)

\* A mutant of push: a full buffer is grown to four times its length.
push_growsFourfold(this, value) ==
    LET grown == IF this.size = Len(this._buffer)
                 THEN _resize(this,
                          NumDouble(NumDouble(Num(Len(this._buffer)))))
                 ELSE Ok(this, undefined)
        t == grown.this
        newTail == BitAnd(t._head + t.size, t._indexMask)
    IN  IF grown.throws # "none" THEN grown
        ELSE Ok([t EXCEPT !._buffer = ArraySet(t._buffer, newTail, value),
                          !.size = t.size + 1], undefined)

\* ArrayDeque.push
push(this, value) ==
    LET grown == IF this.size = Len(this._buffer)
                 THEN _resize(this, NumDouble(Num(Len(this._buffer))))
                 ELSE Ok(this, undefined)
        t == grown.this
        newTail == BitAnd(t._head + t.size, t._indexMask)
    IN  IF grown.throws # "none" THEN grown
        ELSE Ok([t EXCEPT !._buffer = ArraySet(t._buffer, newTail, value),
                          !.size = t.size + 1], undefined)

\* ArrayDeque.enqueue
enqueue(this, value) == push(this, value)

\* ArrayDeque.first
first(this) == Ok(this, ArrayGet(this._buffer, this._head))

\* A mutant of firstUnchecked: it returns the last element.
firstUnchecked_readsLast(this) ==
    Ok(this, ArrayGet(this._buffer,
                 BitAnd(this._head + this.size - 1, this._indexMask)))

\* ArrayDeque.firstUnchecked
firstUnchecked(this) == first(this)

\* A mutant of shiftUnchecked: the new head is not masked.
shiftUnchecked_noMask(this) ==
    LET value == ArrayGet(this._buffer, this._head)
    IN  Ok([this EXCEPT
               !._buffer = ArraySet(this._buffer, this._head, undefined),
               !._head = this._head + 1,
               !.size = this.size - 1], value)

\* ArrayDeque.shiftUnchecked
shiftUnchecked(this) ==
    LET value == ArrayGet(this._buffer, this._head)
    IN  Ok([this EXCEPT
               !._buffer = ArraySet(this._buffer, this._head, undefined),
               !._head = BitAnd(this._head + 1, this._indexMask),
               !.size = this.size - 1], value)

\* A mutant of shift: the test for the empty deque is left out.
shift_noEmptyTest(this) == shiftUnchecked(this)

\* ArrayDeque.shift
shift(this) ==
    IF this.size = 0 THEN Ok(this, undefined) ELSE shiftUnchecked(this)

\* ArrayDeque.dequeue
dequeue(this) == shift(this)

\* ArrayDeque.dequeueUnchecked
dequeueUnchecked(this) == shiftUnchecked(this)

\* ArrayDeque.last
last(this) ==
    LET tail == BitAnd(this._head + this.size - 1, this._indexMask)
    IN  Ok(this, ArrayGet(this._buffer, tail))

\* ArrayDeque.lastUnchecked
lastUnchecked(this) == last(this)

\* A mutant of popUnchecked: the vacated slot is not cleared.
popUnchecked_keepsSlot(this) ==
    LET tail == BitAnd(this._head + this.size - 1, this._indexMask)
        value == ArrayGet(this._buffer, tail)
    IN  Ok([this EXCEPT !.size = this.size - 1], value)

\* A mutant of popUnchecked: a deque that becomes empty gives up its buffer
\* for one of a single slot.
popUnchecked_shrinks(this) ==
    LET tail == BitAnd(this._head + this.size - 1, this._indexMask)
        value == ArrayGet(this._buffer, tail)
    IN  IF this.size = 1
        THEN Ok([this EXCEPT !._buffer = NewArray(1),
                             !._head = 0,
                             !._indexMask = 0,
                             !.size = 0], value)
        ELSE Ok([this EXCEPT
                    !._buffer = ArraySet(this._buffer, tail, undefined),
                    !.size = this.size - 1], value)

\* ArrayDeque.popUnchecked
popUnchecked(this) ==
    LET tail == BitAnd(this._head + this.size - 1, this._indexMask)
        value == ArrayGet(this._buffer, tail)
    IN  Ok([this EXCEPT !._buffer = ArraySet(this._buffer, tail, undefined),
                        !.size = this.size - 1], value)

\* A mutant of pop: the test for the empty deque is left out.
pop_noEmptyTest(this) == popUnchecked(this)

\* ArrayDeque.pop
pop(this) ==
    IF this.size = 0 THEN Ok(this, undefined) ELSE popUnchecked(this)

\* ArrayDeque.getNonNegativeUnchecked
getNonNegativeUnchecked(this, index) ==
    Ok(this, ArrayGet(this._buffer,
                 BitAnd(this._head + index, this._indexMask)))

\* A mutant of getUnchecked: a negative index is counted from the capacity,
\* not from the size.
getUnchecked_addsCapacity(this, index) ==
    getNonNegativeUnchecked(this,
        IF index < 0 THEN index + Len(this._buffer) ELSE index)

\* ArrayDeque.getUnchecked
getUnchecked(this, index) ==
    getNonNegativeUnchecked(this,
        IF index < 0 THEN index + this.size ELSE index)

\* A mutant of get: the upper bound is tested with > for >=.
get_offByOne(this, index) ==
    IF index < -this.size \/ index > this.size
    THEN Ok(this, undefined)
    ELSE getUnchecked(this, index)

\* ArrayDeque.get
get(this, index) ==
    IF index < -this.size \/ index >= this.size
    THEN Ok(this, undefined)
    ELSE getUnchecked(this, index)

\* ArrayDeque.at
at(this, index) == get(this, index)

\* ArrayDeque.setNonNegativeUnchecked
setNonNegativeUnchecked(this, index, value) ==
    Ok([this EXCEPT
           !._buffer = ArraySet(this._buffer,
                           BitAnd(this._head + index, this._indexMask),
                           value)], undefined)

\* A mutant of setUnchecked: a negative index is not counted from the end.
setUnchecked_noNormalize(this, index, value) ==
    setNonNegativeUnchecked(this, index, value)

\* ArrayDeque.setUnchecked
setUnchecked(this, index, value) ==
    setNonNegativeUnchecked(this,
        IF index < 0 THEN index + this.size ELSE index, value)

\* A mutant of set: the range test is left out.
set_noRangeTest(this, index, value) == setUnchecked(this, index, value)

\* ArrayDeque.set
set(this, index, value) ==
    IF index < -this.size \/ index >= this.size
    THEN Throw(this, "RangeError")
    ELSE setUnchecked(this, index, value)

\* A method that returns an array returns [array, isBuffer]: the contents of
\* the array, and whether the array is the object this._buffer refers to, so
\* that a write through either is a write to both. A clone is returned as
\* [clone, sharesBuffer], likewise for the clone's _buffer.

\* A mutant of clone: the buffer is assigned, not sliced.
clone_sharesBuffer(this) ==
    LET new == constructor(NoCapacity).this
    IN  Ok(this,
           [clone |-> [new EXCEPT
                          !.size = this.size,
                          !._head = this._head,
                          !._buffer = this._buffer,
                          !._indexMask = this._indexMask],
            sharesBuffer |-> TRUE])

\* ArrayDeque.clone
clone(this) ==
    LET new == constructor(NoCapacity).this
    IN  Ok(this,
           [clone |-> [new EXCEPT
                          !.size = this.size,
                          !._head = this._head,
                          !._buffer = ArraySlice(this._buffer, 0,
                                                 Len(this._buffer)),
                          !._indexMask = this._indexMask],
            sharesBuffer |-> FALSE])

\* A mutant of toArray: the loop over wrapped elements reads slot head + i,
\* not slot (head + i) & mask.
toArray_noMask(this) ==
    IF this._head + this.size <= Len(this._buffer)
    THEN Ok(this, [array |-> ArraySlice(this._buffer, this._head,
                                        this._head + this.size),
                   isBuffer |-> FALSE])
    ELSE Ok(this, [array |-> [i \in 1..this.size |->
                                 ArrayGet(this._buffer, this._head + (i - 1))],
                   isBuffer |-> FALSE])

\* A mutant of toArray: a full buffer that starts at slot 0 is returned as
\* it is, not sliced.
toArray_returnsBuffer(this) ==
    IF this._head = 0 /\ this.size = Len(this._buffer)
    THEN Ok(this, [array |-> this._buffer, isBuffer |-> TRUE])
    ELSE IF this._head + this.size <= Len(this._buffer)
    THEN Ok(this, [array |-> ArraySlice(this._buffer, this._head,
                                        this._head + this.size),
                   isBuffer |-> FALSE])
    ELSE Ok(this, [array |-> [i \in 1..this.size |->
                                 ArrayGet(this._buffer,
                                     BitAnd(this._head + (i - 1),
                                            this._indexMask))],
                   isBuffer |-> FALSE])

\* ArrayDeque.toArray
toArray(this) ==
    IF this._head + this.size <= Len(this._buffer)
    THEN Ok(this, [array |-> ArraySlice(this._buffer, this._head,
                                        this._head + this.size),
                   isBuffer |-> FALSE])
    ELSE Ok(this, [array |-> [i \in 1..this.size |->
                                 ArrayGet(this._buffer,
                                     BitAnd(this._head + (i - 1),
                                            this._indexMask))],
                   isBuffer |-> FALSE])

\* ArrayDeque.toJSON
toJSON(this) == toArray(this)

\* Array.from(deque): the values next() of the ArrayDequeIterator yields
\* until it reports done, in a new array.
iterate(this) ==
    Ok(this, [array |-> [i \in 1..this.size |->
                            getNonNegativeUnchecked(this, i - 1).ret],
              isBuffer |-> FALSE])

\* new ArrayDequeIterator(deque): the iterator object is [_index]; the deque
\* it refers to is the one under test.
ArrayDequeIterator_constructor == [_index |-> 0]

\* A mutant of next: done is reported once _index exceeds size.
ArrayDequeIterator_next_pastEnd(this, _arrayDeque) ==
    IF this._index > _arrayDeque.size
    THEN Ok(this, [done |-> TRUE, value |-> undefined])
    ELSE Ok([this EXCEPT !._index = @ + 1],
            [done |-> FALSE,
             value |-> getNonNegativeUnchecked(_arrayDeque, this._index).ret])

\* ArrayDequeIterator.next
ArrayDequeIterator_next(this, _arrayDeque) ==
    IF this._index >= _arrayDeque.size
    THEN Ok(this, [done |-> TRUE, value |-> undefined])
    ELSE Ok([this EXCEPT !._index = @ + 1],
            [done |-> FALSE,
             value |-> getNonNegativeUnchecked(_arrayDeque, this._index).ret])

\* --------------------- ArrayDeque, head and tail indexes (part_001)
\* The object: [_head, _tail, _buffer, _indexMask]; the size is computed from
\* the two indexes. The methods carry the prefix tail_.

\* ArrayDeque.size
tail_size(this) ==
    LET size == this._tail - this._head
    IN  IF size < 0 THEN size + Len(this._buffer) ELSE size

RECURSIVE tail_ensureCapacityLoop(_, _)
\* do { newCapacity *= 2 } while (newCapacity < capacity)
tail_ensureCapacityLoop(newCapacity, capacity) ==
    LET doubled == newCapacity * 2
    IN  IF doubled < capacity
        THEN tail_ensureCapacityLoop(doubled, capacity)
        ELSE doubled

\* ArrayDeque._ensureCapacity: the buffer is padded with undefined, then the
\* slots from the head to the end of the old buffer are pushed at the end of
\* the new one, each cleared behind it; the tail is computed anew.
tail_ensureCapacity(this, capacity) ==
    IF capacity <= Len(this._buffer) THEN this
    ELSE
      LET length == Len(this._buffer)
          size == tail_size(this)
          newCapacity == tail_ensureCapacityLoop(length, capacity)
          relocateCount == IF this._head + size > length
                           THEN length - this._head
                           ELSE 0
          padCount == newCapacity - length - relocateCount
          padded == length + padCount
          head == IF relocateCount > 0 THEN padded ELSE this._head
          indexMask == padded + relocateCount - 1
      IN  [this EXCEPT
              !._buffer =
                  [i \in 1..(padded + relocateCount) |->
                      IF i > padded
                      THEN this._buffer[this._head + (i - padded)]
                      ELSE IF i > length THEN undefined
                      ELSE IF relocateCount > 0 /\ i > this._head THEN undefined
                      ELSE this._buffer[i]],
              !._head = head,
              !._indexMask = indexMask,
              !._tail = BitAnd(head + size, indexMask)]

\* new ArrayDeque()
tail_constructor ==
    Ok(tail_ensureCapacity([_head |-> 0, _tail |-> 0,
                            _buffer |-> <<undefined>>, _indexMask |-> 0],
                           1020), undefined)

RECURSIVE tail_addFirst(_, _)
\* ArrayDeque.addFirst
tail_addFirst(this, value) ==
    LET newHead == BitAnd(this._head - 1, this._indexMask)
    IN  IF newHead = this._tail
        THEN tail_addFirst(tail_ensureCapacity(this, Len(this._buffer) + 1),
                           value)
        ELSE Ok([this EXCEPT
                    !._buffer = ArraySet(this._buffer, newHead, value),
                    !._head = newHead], undefined)

\* A mutant of addLast: the element is written without the test for the new
\* tail meeting the head.
tail_addLast_noGrowth(this, value) ==
    LET tail == this._tail
        newTail == BitAnd(tail + 1, this._indexMask)
    IN  Ok([this EXCEPT
               !._buffer = ArraySet(this._buffer, tail, value),
               !._tail = newTail], undefined)

RECURSIVE tail_addLast(_, _)
\* ArrayDeque.addLast
tail_addLast(this, value) ==
    LET tail == this._tail
        newTail == BitAnd(tail + 1, this._indexMask)
    IN  IF newTail = this._head
        THEN tail_addLast(tail_ensureCapacity(this, Len(this._buffer) + 1),
                          value)
        ELSE Ok([this EXCEPT
                    !._buffer = ArraySet(this._buffer, tail, value),
                    !._tail = newTail], undefined)

\* ArrayDeque.removeFirst
tail_removeFirst(this) ==
    LET head == this._head
    IN  IF head = this._tail
        THEN Ok(this, undefined)
        ELSE Ok([this EXCEPT
                    !._buffer = ArraySet(this._buffer, head, undefined),
                    !._head = BitAnd(head + 1, this._indexMask)],
                ArrayGet(this._buffer, head))

\* ArrayDeque.removeLast
tail_removeLast(this) ==
    IF this._head = this._tail
    THEN Ok(this, undefined)
    ELSE LET newTail == BitAnd(this._tail - 1, this._indexMask)
         IN  Ok([this EXCEPT
                    !._buffer = ArraySet(this._buffer, newTail, undefined),
                    !._tail = newTail],
                ArrayGet(this._buffer, newTail))

\* ArrayDeque.at
tail_at(this, index) ==
    LET size == tail_size(this)
        normalized == IF index < 0 THEN index + size ELSE index
    IN  IF index >= size \/ normalized < 0
        THEN Ok(this, undefined)
        ELSE Ok(this, ArrayGet(this._buffer,
                          BitAnd(this._head + normalized, this._indexMask)))

\* ------------- ArrayDeque, mask-based, first version (part_000, lines 1-318)
\* The constructor and the insertions of this version double a capacity with
\* the shift operator, whose operands and result are 32-bit integers.

\* x << 1, for a 32-bit integer x: 2 * x brought back into -2^31 .. 2^31 - 1.
ShiftLeft1(x) ==
    IF x >= 2^30 THEN ((x - 2^30) * 2 - 2^30) - 2^30
    ELSE IF x < -(2^30) THEN ((x + 2^30) * 2 + 2^30) + 2^30
    ELSE 2 * x

\* ToInt32 of the number n < 2^32, the conversion << applies to its operand.
ToInt32(n) ==
    IF n.hi >= 2 THEN (n.hi - 4) * 2^30 + n.lo ELSE n.hi * 2^30 + n.lo

\* x < n, for a 32-bit integer x and a number n >= 0.
Less32(x, n) == x < 0 \/ NumLess(Num(x), n)

\* --------------------------- ArrayDeque, _wrapRight-based (src/ArrayDeque.ts)
\* The object: [size, _head, _buffer]. The methods that the mask-based class
\* names too carry the prefix wrap_.

\* new ArrayDeque()
wrap_constructor ==
    Ok([size |-> 0, _head |-> 0, _buffer |-> <<undefined>>], undefined)

\* ArrayDeque._wrapRight
_wrapRight(this, offset) ==
    LET wrapped == this._head + offset
    IN  IF wrapped >= Len(this._buffer)
        THEN wrapped - Len(this._buffer)
        ELSE wrapped

\* ArrayDeque._tail
_tail(this) == _wrapRight(this, this.size - 1)

RECURSIVE _ensureCapacityLoop(_, _)
\* do { newCapacity *= 2 } while (newCapacity < capacity)
_ensureCapacityLoop(newCapacity, capacity) ==
    LET doubled == newCapacity * 2
    IN  IF doubled < capacity
        THEN _ensureCapacityLoop(doubled, capacity)
        ELSE doubled

\* A mutant of _ensureCapacity: the head is left where it was after the
\* relocation.
_ensureCapacity_keepsHead(this, capacity) ==
    IF capacity <= Len(this._buffer) THEN this
    ELSE
      LET length == Len(this._buffer)
          newCapacity == _ensureCapacityLoop(length, capacity)
          relocateCount == IF this._head + this.size > length
                           THEN length - this._head
                           ELSE 0
          padCount == newCapacity - length - relocateCount
          padded == length + padCount
      IN  [this EXCEPT
              !._buffer =
                  [i \in 1..(padded + relocateCount) |->
                      IF i > padded
                      THEN this._buffer[this._head + (i - padded)]
                      ELSE IF i > length THEN undefined
                      ELSE IF relocateCount > 0 /\ i > this._head THEN undefined
                      ELSE this._buffer[i]]]

\* A mutant of _ensureCapacity: the slots relocated to the end of the buffer
\* are not cleared behind.
_ensureCapacity_keepsCopies(this, capacity) ==
    IF capacity <= Len(this._buffer) THEN this
    ELSE
      LET length == Len(this._buffer)
          newCapacity == _ensureCapacityLoop(length, capacity)
          relocateCount == IF this._head + this.size > length
                           THEN length - this._head
                           ELSE 0
          padCount == newCapacity - length - relocateCount
          padded == length + padCount
      IN  [this EXCEPT
              !._buffer =
                  [i \in 1..(padded + relocateCount) |->
                      IF i > padded
                      THEN this._buffer[this._head + (i - padded)]
                      ELSE IF i > length THEN undefined
                      ELSE this._buffer[i]],
              !._head = IF relocateCount > 0
                        THEN padded
                        ELSE this._head]

\* ArrayDeque._ensureCapacity: the buffer is padded with undefined, then the
\* slots from the head to the end of the old buffer are pushed at the end of
\* the new one, each cleared behind it.
_ensureCapacity(this, capacity) ==
    IF capacity <= Len(this._buffer) THEN this
    ELSE
      LET length == Len(this._buffer)
          newCapacity == _ensureCapacityLoop(length, capacity)
          relocateCount == IF this._head + this.size > length
                           THEN length - this._head
                           ELSE 0
          padCount == newCapacity - length - relocateCount
          padded == length + padCount
      IN  [this EXCEPT
              !._buffer =
                  [i \in 1..(padded + relocateCount) |->
                      IF i > padded
                      THEN this._buffer[this._head + (i - padded)]
                      ELSE IF i > length THEN undefined
                      ELSE IF relocateCount > 0 /\ i > this._head THEN undefined
                      ELSE this._buffer[i]],
              !._head = IF relocateCount > 0
                        THEN padded
                        ELSE this._head]

\* ArrayDeque.addFirst
addFirst(this, value) ==
    LET t == _ensureCapacity(this, this.size + 1)
        newHead == IF t._head - 1 < 0
                   THEN t._head - 1 + Len(t._buffer)
                   ELSE t._head - 1
    IN  Ok([t EXCEPT !._buffer = ArraySet(t._buffer, newHead, value),
                     !._head = newHead,
                     !.size = t.size + 1], undefined)

\* ArrayDeque.addLast
addLast(this, value) ==
    LET t == _ensureCapacity(this, this.size + 1)
        newTail == _wrapRight(t, t.size)
    IN  Ok([t EXCEPT !._buffer = ArraySet(t._buffer, newTail, value),
                     !.size = t.size + 1], undefined)

\* ArrayDeque.first
wrap_first(this) ==
    IF this.size = 0
    THEN Ok(this, undefined)
    ELSE Ok(this, ArrayGet(this._buffer, this._head))

\* ArrayDeque.removeFirst
removeFirst(this) ==
    IF this.size = 0
    THEN Ok(this, undefined)
    ELSE LET value == ArrayGet(this._buffer, this._head)
         IN  Ok([this EXCEPT
                    !._buffer = ArraySet(this._buffer, this._head, undefined),
                    !._head = _wrapRight(this, 1),
                    !.size = this.size - 1], value)

\* ArrayDeque.last
wrap_last(this) ==
    IF this.size = 0
    THEN Ok(this, undefined)
    ELSE Ok(this, ArrayGet(this._buffer, _tail(this)))

\* ArrayDeque.removeLast
removeLast(this) ==
    IF this.size = 0
    THEN Ok(this, undefined)
    ELSE LET tail == _tail(this)
             value == ArrayGet(this._buffer, tail)
         IN  Ok([this EXCEPT
                    !._buffer = ArraySet(this._buffer, tail, undefined),
                    !.size = this.size - 1], value)

\* ArrayDeque.at
wrap_at(this, index) ==
    IF index >= this.size
    THEN Ok(this, undefined)
    ELSE LET normalized == IF index < 0 THEN index + this.size ELSE index
         IN  IF normalized < 0
             THEN Ok(this, undefined)
             ELSE Ok(this, ArrayGet(this._buffer, _wrapRight(this, normalized)))

\* ArrayDeque.enqueue
wrap_enqueue(this, value) == addLast(this, value)

\* ArrayDeque.dequeue
wrap_dequeue(this) == removeFirst(this)

\* ArrayDequeIterator over an ArrayDeque that is not modified meanwhile:
\* the values its next() yields until it reports done.
wrap_iterate(this) ==
    [i \in 1..this.size |-> ArrayGet(this._buffer, _wrapRight(this, i - 1))]

\* ArrayDequeIterator.next
wrap_ArrayDequeIterator_next(this, _arrayDeque) ==
    IF this._index >= _arrayDeque.size
    THEN Ok(this, [done |-> TRUE, value |-> undefined])
    ELSE Ok([this EXCEPT !._index = @ + 1],
            [done |-> FALSE,
             value |-> ArrayGet(_arrayDeque._buffer,
                                _wrapRight(_arrayDeque, this._index))])

\* ArrayDeque.clone
wrap_clone(this) ==
    Ok(this,
       [clone |-> [wrap_constructor.this EXCEPT
                      !.size = this.size,
                      !._head = this._head,
                      !._buffer = ArraySlice(this._buffer, 0,
                                             Len(this._buffer))],
        sharesBuffer |-> FALSE])

\* ArrayDeque.toArray: Array.from(this)
wrap_toArray(this) ==
    Ok(this, [array |-> wrap_iterate(this), isBuffer |-> FALSE])

\* ArrayDeque.toJSON
wrap_toJSON(this) == wrap_toArray(this)

\* ------------------------------------ BlockingQueue (unnamed/part_004)
\* unnamed/part_003 is the same class without _listeners, _addListener and
\* tee: its enqueue and dequeue are those below on a queue with no listener.
\*
\* The heap w: [queues, promises, enqueueCalls, dequeueCalls, teeCalls, log].
\*   queues[q]   = [_values, _resolves, _listeners], the deques being
\*                 ArrayDeques of ./ArrayDeque.js; a resolve function is the
\*                 number of its promise, a listener (value) =>
\*                 teed.enqueue(value) is the number of the queue teed;
\*   promises[p] = [kind, state, value, done, source, resolveCalls]: kind
\*                 "dequeue" for the promise of dequeue(), "next" for the one
\*                 its then() makes in the iterator's next(), source being
\*                 the former; resolveCalls counts the times the promise has
\*                 been resolved, its state changing the first time only;
\*   enqueueCalls[q], dequeueCalls[q]: history, the values enqueue() was
\*                 called with on q and the promises dequeue() returned;
\*   teeCalls[q] = [source, claimed]: history, the queue tee() was called on
\*                 to make q (0 for the queue constructed first) and how
\*                 many of its values had been claimed by a dequeue() then;
\*   log         = what the enqueue() calls have done during the call being
\*                 made, in the order they did it: each entry [queue, value,
\*                 to] is a value handed to a waiter or put in the buffer.

\* new BlockingQueue()
BlockingQueue_constructor ==
    [_values |-> wrap_constructor.this,
     _resolves |-> wrap_constructor.this,
     _listeners |-> <<>>]

\* The resolve function of promise p called with value: a promise settles once.
Promise_resolve(promises, p, value) ==
    IF p \notin DOMAIN promises THEN promises
    ELSE IF promises[p].state = "pending"
    THEN [promises EXCEPT ![p].state = "fulfilled", ![p].value = value,
                          ![p].resolveCalls = @ + 1]
    ELSE [promises EXCEPT ![p].resolveCalls = @ + 1]

\* new Promise(...) for the state "pending", Promise.resolve(value) for the
\* state "fulfilled".
NewPromise(kind, state, value, source) ==
    [kind |-> kind, state |-> state, value |-> value, done |-> FALSE,
     source |-> source,
     resolveCalls |-> IF state = "fulfilled" THEN 1 ELSE 0]

RECURSIVE BlockingQueue_enqueue(_, _, _)
RECURSIVE BlockingQueue_enqueue_listeners(_, _, _, _)

\* The loop of enqueue: for (const listener of this._listeners) listener(value),
\* from the i-th listener on.
BlockingQueue_enqueue_listeners(w, q, value, i) ==
    IF i > Len(w.queues[q]._listeners) THEN w
    ELSE BlockingQueue_enqueue_listeners(
             BlockingQueue_enqueue(w, w.queues[q]._listeners[i], value),
             q, value, i + 1)

\* A mutant of enqueue: the value handed to a waiter is buffered as well.
BlockingQueue_enqueue_alsoBuffers(w, q, value) ==
    LET logged == [w EXCEPT !.enqueueCalls[q] = Append(@, value)]
        w1 == BlockingQueue_enqueue_listeners(logged, q, value, 1)
        this == w1.queues[q]
        r == wrap_dequeue(this._resolves)
    IN  [w1 EXCEPT
            !.queues[q]._resolves = r.this,
            !.promises = Promise_resolve(@, r.ret, value),
            !.queues[q]._values = wrap_enqueue(this._values, value).this]

\* A mutant of enqueue: the queue serves its own waiter or buffer first and
\* calls the listeners afterwards.
BlockingQueue_enqueue_ownFirst(w, q, value) ==
    LET logged == [w EXCEPT !.enqueueCalls[q] = Append(@, value)]
        this == logged.queues[q]
        w1 == IF this._resolves.size > 0
              THEN LET r == wrap_dequeue(this._resolves)
                   IN  [logged EXCEPT
                           !.queues[q]._resolves = r.this,
                           !.promises = Promise_resolve(@, r.ret, value),
                           !.log = Append(@, [queue |-> q, value |-> value,
                                              to |-> "waiter"])]
              ELSE [logged EXCEPT
                       !.queues[q]._values =
                           wrap_enqueue(this._values, value).this,
                       !.log = Append(@, [queue |-> q, value |-> value,
                                          to |-> "buffer"])]
    IN  BlockingQueue_enqueue_listeners(w1, q, value, 1)

\* A mutant of enqueue: the oldest waiter is resolved and stays pending.
BlockingQueue_enqueue_keepsWaiter(w, q, value) ==
    LET logged == [w EXCEPT !.enqueueCalls[q] = Append(@, value)]
        w1 == BlockingQueue_enqueue_listeners(logged, q, value, 1)
        this == w1.queues[q]
    IN  IF this._resolves.size > 0
        THEN [w1 EXCEPT !.promises =
                 Promise_resolve(@, wrap_first(this._resolves).ret, value)]
        ELSE [w1 EXCEPT
                 !.queues[q]._values = wrap_enqueue(this._values, value).this]

\* A mutant of enqueue: the newest waiter is resolved, not the oldest.
BlockingQueue_enqueue_newestWaiter(w, q, value) ==
    LET logged == [w EXCEPT !.enqueueCalls[q] = Append(@, value)]
        w1 == BlockingQueue_enqueue_listeners(logged, q, value, 1)
        this == w1.queues[q]
    IN  IF this._resolves.size > 0
        THEN LET r == removeLast(this._resolves)
             IN  [w1 EXCEPT !.queues[q]._resolves = r.this,
                            !.promises = Promise_resolve(@, r.ret, value)]
        ELSE [w1 EXCEPT
                 !.queues[q]._values = wrap_enqueue(this._values, value).this]

\* BlockingQueue.enqueue: the heap afterwards.
BlockingQueue_enqueue(w, q, value) ==
    LET logged == [w EXCEPT !.enqueueCalls[q] = Append(@, value)]
        w1 == BlockingQueue_enqueue_listeners(logged, q, value, 1)
        this == w1.queues[q]
    IN  IF this._resolves.size > 0
        THEN LET r == wrap_dequeue(this._resolves)
             IN  [w1 EXCEPT !.queues[q]._resolves = r.this,
                            !.promises = Promise_resolve(@, r.ret, value),
                            !.log = Append(@, [queue |-> q, value |-> value,
                                               to |-> "waiter"])]
        ELSE [w1 EXCEPT
                 !.queues[q]._values = wrap_enqueue(this._values, value).this,
                 !.log = Append(@, [queue |-> q, value |-> value,
                                    to |-> "buffer"])]

\* A mutant of dequeue: the newest buffered value is taken, not the oldest.
BlockingQueue_dequeue_newest(w, q) ==
    LET this == w.queues[q]
        p == Len(w.promises) + 1
    IN  IF this._values.size > 0
        THEN LET r == removeLast(this._values)
             IN  [w EXCEPT
                     !.queues[q]._values = r.this,
                     !.promises =
                         Append(@, NewPromise("dequeue", "fulfilled", r.ret, 0)),
                     !.dequeueCalls[q] = Append(@, p)]
        ELSE [w EXCEPT
                 !.queues[q]._resolves = wrap_enqueue(this._resolves, p).this,
                 !.promises =
                     Append(@, NewPromise("dequeue", "pending", undefined, 0)),
                 !.dequeueCalls[q] = Append(@, p)]

\* A mutant of dequeue: the oldest buffered value of every queue made by
\* tee() from this one is removed as well.
BlockingQueue_dequeue_fromTees(w, q) ==
    LET this == w.queues[q]
        p == Len(w.promises) + 1
        tees == {this._listeners[i] : i \in DOMAIN this._listeners}
        taken == [u \in DOMAIN w.queues |->
                     IF u \in tees
                     THEN [w.queues[u] EXCEPT !._values = wrap_dequeue(@).this]
                     ELSE w.queues[u]]
    IN  IF this._values.size > 0
        THEN LET r == wrap_dequeue(this._values)
             IN  [w EXCEPT
                     !.queues = [taken EXCEPT ![q]._values = r.this],
                     !.promises =
                         Append(@, NewPromise("dequeue", "fulfilled", r.ret, 0)),
                     !.dequeueCalls[q] = Append(@, p)]
        ELSE [w EXCEPT
                 !.queues[q]._resolves = wrap_enqueue(this._resolves, p).this,
                 !.promises =
                     Append(@, NewPromise("dequeue", "pending", undefined, 0)),
                 !.dequeueCalls[q] = Append(@, p)]

\* A mutant of dequeue: a waiter is added whether a value is buffered or not.
BlockingQueue_dequeue_waitsAlways(w, q) ==
    LET this == w.queues[q]
        p == Len(w.promises) + 1
    IN  [w EXCEPT
            !.queues[q]._resolves = wrap_enqueue(this._resolves, p).this,
            !.promises =
                Append(@, NewPromise("dequeue", "pending", undefined, 0)),
            !.dequeueCalls[q] = Append(@, p)]

\* A mutant of dequeue: the new waiter is put in front of the pending ones.
BlockingQueue_dequeue_waiterAtFront(w, q) ==
    LET this == w.queues[q]
        p == Len(w.promises) + 1
    IN  IF this._values.size > 0
        THEN LET r == wrap_dequeue(this._values)
             IN  [w EXCEPT
                     !.queues[q]._values = r.this,
                     !.promises =
                         Append(@, NewPromise("dequeue", "fulfilled", r.ret, 0)),
                     !.dequeueCalls[q] = Append(@, p)]
        ELSE [w EXCEPT
                 !.queues[q]._resolves = addFirst(this._resolves, p).this,
                 !.promises =
                     Append(@, NewPromise("dequeue", "pending", undefined, 0)),
                 !.dequeueCalls[q] = Append(@, p)]

\* BlockingQueue.dequeue: the heap afterwards; the promise returned is the
\* last one of promises.
BlockingQueue_dequeue(w, q) ==
    LET this == w.queues[q]
        p == Len(w.promises) + 1
    IN  IF this._values.size > 0
        THEN LET r == wrap_dequeue(this._values)
             IN  [w EXCEPT
                     !.queues[q]._values = r.this,
                     !.promises =
                         Append(@, NewPromise("dequeue", "fulfilled", r.ret, 0)),
                     !.dequeueCalls[q] = Append(@, p)]
        ELSE [w EXCEPT
                 !.queues[q]._resolves = wrap_enqueue(this._resolves, p).this,
                 !.promises =
                     Append(@, NewPromise("dequeue", "pending", undefined, 0)),
                 !.dequeueCalls[q] = Append(@, p)]

RECURSIVE BlockingQueue_addListener_replay(_, _, _, _)
\* The loop of _addListener: for (const value of this._values) listener(value),
\* from the i-th value on.
BlockingQueue_addListener_replay(w, values, listener, i) ==
    IF i > Len(values) THEN w
    ELSE BlockingQueue_addListener_replay(
             BlockingQueue_enqueue(w, listener, values[i]),
             values, listener, i + 1)

\* A mutant of _addListener: the buffered values are not replayed.
BlockingQueue_addListener_noReplay(w, q, listener) ==
    [w EXCEPT !.queues[q]._listeners = Append(@, listener)]

\* BlockingQueue._addListener
BlockingQueue_addListener(w, q, listener) ==
    BlockingQueue_addListener_replay(
        [w EXCEPT !.queues[q]._listeners = Append(@, listener)],
        wrap_iterate(w.queues[q]._values), listener, 1)

\* BlockingQueue.tee: the queue returned is the last one of queues.
BlockingQueue_tee(w, q) ==
    LET teed == Len(w.queues) + 1
        E == Len(w.enqueueCalls[q])
        D == Len(w.dequeueCalls[q])
    IN  BlockingQueue_addListener(
            [w EXCEPT !.queues = Append(@, BlockingQueue_constructor),
                      !.enqueueCalls = Append(@, <<>>),
                      !.dequeueCalls = Append(@, <<>>),
                      !.teeCalls =
                          Append(@, [source |-> q,
                                     claimed |-> IF E < D THEN E ELSE D])],
            q, teed)

\* A mutant of next: dequeue() is called twice, the promise of the second
\* call being the one then() is called on.
BlockingQueueAsyncIterator_next_twoDequeues(w, q) ==
    LET w1 == BlockingQueue_dequeue(BlockingQueue_dequeue(w, q), q)
    IN  [w1 EXCEPT
            !.promises =
                Append(@, NewPromise("next", "pending", undefined, Len(@)))]

\* BlockingQueueAsyncIterator.next: dequeue().then(...); the promise returned
\* is the last one of promises, the one of dequeue() the one before.
BlockingQueueAsyncIterator_next(w, q) ==
    LET w1 == BlockingQueue_dequeue(w, q)
    IN  [w1 EXCEPT
            !.promises =
                Append(@, NewPromise("next", "pending", undefined, Len(@)))]

\* The callback next() passed to then(), run as a microtask once the promise
\* of dequeue() is fulfilled: (t) => ({ done: false, value: t }).
BlockingQueueAsyncIterator_then(promises, p) ==
    [promises EXCEPT ![p].state = "fulfilled",
                     ![p].value = promises[promises[p].source].value,
                     ![p].done = FALSE,
                     ![p].resolveCalls = @ + 1]

\* ------------------------------------------------------------------ state

VARIABLES
    variant,    \* the class under test: "mask" (part_000) or "wrap" (ArrayDeque.ts)
    deque,      \* the ArrayDeque under test
    S,          \* the abstract sequence the same calls build
    net,        \* adds minus removes, a remove counting when net > 0 only
    call,       \* the call that has just returned: its name, arguments, result
                \* and the state before it; "idle" once the caller has taken it
    ensured,    \* the n of the last ensureCapacity(n) the caller keeps track
                \* of and the capacity it left, until size exceeds n
    kept,       \* the array or the clone the last call returned, which the
                \* caller holds during the call that follows
    iterator,   \* the ArrayDequeIterator the caller holds, with what its
                \* next() calls have returned so far
    built       \* how the deque was built, while the caller keeps track of
                \* it: the capacity the constructor was called with, as
                \* long as only insertions have been made since

VARIABLES
    queues,         \* the BlockingQueues, the first being the one constructed
    promises,       \* the promises made by dequeue() and next()
    enqueueCalls,   \* per queue, the values enqueue() was called with
    dequeueCalls,   \* per queue, the promises dequeue() returned
    teeCalls,       \* per queue, the tee() call that has made it
    calls,          \* the number of calls the caller has made on the queues
                    \* (in SpecTail: on the deque, a loop of calls apart)
    bqCall          \* as call, for the calls on the BlockingQueues, with the
                    \* log of what the enqueue() calls inside it have done

dequeVars == <<variant, deque, S, net, call, ensured, kept, iterator, built>>

queueVars ==
    <<queues, promises, enqueueCalls, dequeueCalls, teeCalls, calls, bqCall>>

vars == <<variant, deque, S, net, call, ensured, kept, iterator, built,
          queues, promises, enqueueCalls, dequeueCalls, teeCalls, calls,
          bqCall>>

\* The heap of the BlockingQueues.
Heap ==
    [queues |-> queues, promises |-> promises,
     enqueueCalls |-> enqueueCalls, dequeueCalls |-> dequeueCalls,
     teeCalls |-> teeCalls, log |-> <<>>]

IdleQueueCall(w) ==
    [op |-> "idle", queue |-> 0, value |-> undefined, ret |-> undefined,
     pre |-> w, log |-> <<>>]

\* One BlockingQueue, just constructed.
InitQueues ==
    /\ queues = <<BlockingQueue_constructor>>
    /\ promises = <<>>
    /\ enqueueCalls = <<(<<>>)>>
    /\ dequeueCalls = <<(<<>>)>>
    /\ teeCalls = <<[source |-> 0, claimed |-> 0]>>
    /\ calls = 0
    /\ bqCall = IdleQueueCall(Heap)

Capacity(d) == Len(d._buffer)

\* The indices the calls are made with: the valid ones and one past each end.
Indexes(d) == (-(d.size + 1))..d.size

Normalized(d, index) == IF index < 0 THEN index + d.size ELSE index

InRange(d, index) == index >= -d.size /\ index < d.size

\* The live elements wrap around the end of the buffer.
Wrapped(d) == d._head + d.size > Capacity(d)

AddOps == {"unshift", "push", "enqueue", "addFirst", "addLast", "wrap_enqueue"}

RemoveFirstOps == {"shift", "dequeue", "removeFirst", "wrap_dequeue"}

RemoveLastOps == {"pop", "removeLast"}

RemoveOps == RemoveFirstOps \cup RemoveLastOps

Front(seq) == SubSeq(seq, 1, Len(seq) - 1)

\* No ensureCapacity(n) is kept track of.
NoneEnsured == [n |-> -1, capacity |-> 0]

\* What is kept track of once the deque is d: nothing when size exceeds n.
StillEnsured(d) ==
    IF ensured.n >= 0 /\ d.size > ensured.n THEN NoneEnsured ELSE ensured

\* The calls that return an array or a clone.
CopyOps ==
    {"toArray", "toJSON", "iterate", "clone",
     "wrap_toArray", "wrap_toJSON", "wrap_iterate", "wrap_clone"}

\* The caller holds no array and no clone.
NoneKept ==
    [kind |-> "none", from |-> "none", now |-> undefined, shared |-> FALSE,
     was |-> undefined]

\* The caller holds what the call op has returned: an array or a clone, as
\* it is now and as it was when returned, and whether its array (the clone's
\* buffer) is the object the deque's _buffer refers to.
Kept(op, ret) ==
    IF "array" \in DOMAIN ret
    THEN [kind |-> "array", from |-> op, now |-> ret.array,
          shared |-> ret.isBuffer, was |-> ret.array]
    ELSE [kind |-> "clone", from |-> op, now |-> ret.clone,
          shared |-> ret.sharesBuffer, was |-> ret.clone]

\* What the caller holds once a call has left the deque as d: an array that
\* is the deque's buffer shows what the call wrote into it.
Seen(k, d) ==
    IF ~k.shared THEN k
    ELSE IF k.kind = "array" THEN [k EXCEPT !.now = d._buffer]
    ELSE [k EXCEPT !.now._buffer = d._buffer]

\* The caller does not keep track of how the deque was built.
NotBuilt == [tracked |-> FALSE, capacity |-> undefined]

\* The caller holds no iterator.
NoIterator ==
    [active |-> FALSE, _index |-> 0, yielded |-> <<>>, dones |-> 0]

Called(op, index, value, r) ==
    [op |-> op, index |-> index, value |-> value, ret |-> r.ret,
     throws |-> r.throws, pre |-> deque, preS |-> S, preNet |-> net]

InitDeque ==
    /\ variant \in {"mask", "wrap"}
    /\ \E hint \in 0..MaxHint :
         LET r == IF variant = "mask" THEN constructor(Num(hint))
                  ELSE wrap_constructor
         IN  /\ deque = r.this
             /\ call = [op |-> "constructor",
                        index |-> undefined,
                        value |-> IF variant = "mask" THEN hint ELSE undefined,
                        ret |-> undefined, throws |-> r.throws,
                        pre |-> r.this, preS |-> <<>>, preNet |-> 0]
    /\ S = <<>>
    /\ net = 0
    /\ ensured = NoneEnsured
    /\ kept = NoneKept
    /\ iterator = NoIterator
    /\ built = NotBuilt

Init == InitDeque /\ InitQueues

\* An insertion at the front: r is the method's result.
InsertFirst(op, value, r) ==
    /\ call.op = "idle"
    /\ Len(S) < MaxSize
    /\ deque' = r.this
    /\ S' = IF r.throws = "none" THEN <<value>> \o S ELSE S
    /\ net' = IF r.throws = "none" THEN net + 1 ELSE net
    /\ call' = Called(op, undefined, value, r)
    /\ ensured' = StillEnsured(r.this)
    /\ kept' = Seen(kept, r.this)
    /\ UNCHANGED <<variant, built, iterator, queueVars>>

\* An insertion at the back.
InsertLast(op, value, r) ==
    /\ call.op = "idle"
    /\ Len(S) < MaxSize
    /\ deque' = r.this
    /\ S' = IF r.throws = "none" THEN Append(S, value) ELSE S
    /\ net' = IF r.throws = "none" THEN net + 1 ELSE net
    /\ call' = Called(op, undefined, value, r)
    /\ ensured' = StillEnsured(r.this)
    /\ kept' = Seen(kept, r.this)
    /\ UNCHANGED <<variant, built, iterator, queueVars>>

\* A removal at the front.
DeleteFirst(op, r) ==
    /\ call.op = "idle"
    /\ deque' = r.this
    /\ S' = IF S = <<>> THEN S ELSE Tail(S)
    /\ net' = IF net = 0 THEN 0 ELSE net - 1
    /\ call' = Called(op, undefined, undefined, r)
    /\ kept' = Seen(kept, r.this)
    /\ built' = NotBuilt
    /\ UNCHANGED <<variant, iterator, ensured, queueVars>>

\* A removal at the back.
DeleteLast(op, r) ==
    /\ call.op = "idle"
    /\ deque' = r.this
    /\ S' = IF S = <<>> THEN S ELSE Front(S)
    /\ net' = IF net = 0 THEN 0 ELSE net - 1
    /\ call' = Called(op, undefined, undefined, r)
    /\ kept' = Seen(kept, r.this)
    /\ built' = NotBuilt
    /\ UNCHANGED <<variant, iterator, ensured, queueVars>>

\* A read.
Read(op, index, r) ==
    /\ call.op = "idle"
    /\ deque' = r.this
    /\ call' = Called(op, index, undefined, r)
    /\ UNCHANGED <<variant, built, iterator, S, net, ensured, kept, queueVars>>

\* -------------------------------------------- the calls, mask-based class

Unshift(value) ==
    variant = "mask" /\ InsertFirst("unshift", value, unshift(deque, value))

Push(value) ==
    variant = "mask" /\ InsertLast("push", value, push(deque, value))

Enqueue(value) ==
    variant = "mask" /\ InsertLast("enqueue", value, enqueue(deque, value))

Shift == variant = "mask" /\ DeleteFirst("shift", shift(deque))

Dequeue == variant = "mask" /\ DeleteFirst("dequeue", dequeue(deque))

Pop == variant = "mask" /\ DeleteLast("pop", pop(deque))

First == variant = "mask" /\ Read("first", undefined, first(deque))

Last == variant = "mask" /\ Read("last", undefined, last(deque))

Get(index) == variant = "mask" /\ Read("get", index, get(deque, index))

At(index) == variant = "mask" /\ Read("at", index, at(deque, index))

Set(index, value) ==
    /\ variant = "mask"
    /\ call.op = "idle"
    /\ LET r == set(deque, index, value)
       IN  /\ deque' = r.this
           /\ S' = IF r.throws = "none" /\ InRange(deque, index)
                   THEN [S EXCEPT ![Normalized(deque, index) + 1] = value]
                   ELSE S
           /\ call' = Called("set", index, value, r)
           /\ kept' = Seen(kept, r.this)
    /\ UNCHANGED <<variant, built, iterator, net, ensured, queueVars>>

\* Capacities beyond MAX_CAPACITY: 2^31 + 1, 2^32 and 2^32 + 1.
TooLarge ==
    {NumSucc(MAX_CAPACITY), NumDouble(MAX_CAPACITY),
     NumSucc(NumDouble(MAX_CAPACITY))}

\* The capacities ensureCapacity is called with. A buffer of more than
\* MaxEnsure and at most MAX_CAPACITY slots is too long to write down.
Capacities == {Num(n) : n \in 0..MaxEnsure} \cup TooLarge

EnsureCapacity(capacity) ==
    /\ variant = "mask"
    /\ call.op = "idle"
    /\ LET r == ensureCapacity(deque, capacity)
       IN  /\ deque' = r.this
           /\ call' = Called("ensureCapacity", undefined, capacity, r)
    /\ UNCHANGED <<variant, built, iterator, S, net, ensured, kept, queueVars>>

\* ------------------------------------- the calls, _wrapRight-based class

AddFirst(value) ==
    variant = "wrap" /\ InsertFirst("addFirst", value, addFirst(deque, value))

AddLast(value) ==
    variant = "wrap" /\ InsertLast("addLast", value, addLast(deque, value))

WrapEnqueue(value) ==
    variant = "wrap"
    /\ InsertLast("wrap_enqueue", value, wrap_enqueue(deque, value))

RemoveFirst == variant = "wrap" /\ DeleteFirst("removeFirst", removeFirst(deque))

WrapDequeue == variant = "wrap" /\ DeleteFirst("wrap_dequeue", wrap_dequeue(deque))

RemoveLast == variant = "wrap" /\ DeleteLast("removeLast", removeLast(deque))

WrapFirst == variant = "wrap" /\ Read("wrap_first", undefined, wrap_first(deque))

WrapLast == variant = "wrap" /\ Read("wrap_last", undefined, wrap_last(deque))

WrapAt(index) ==
    variant = "wrap" /\ Read("wrap_at", index, wrap_at(deque, index))

\* The caller takes the result: the next call is made on the object as the
\* last one left it.
Return ==
    /\ call.op # "idle"
    /\ call' = [op |-> "idle", index |-> undefined, value |-> undefined,
                ret |-> undefined, throws |-> "none",
                pre |-> deque, preS |-> S, preNet |-> net]
    /\ kept' = IF call.op \in CopyOps THEN Kept(call.op, call.ret)
             ELSE NoneKept
    /\ UNCHANGED <<variant, built, iterator, deque, S, net, ensured, queueVars>>

Next ==
    \/ Return
    \/ \E value \in Values : Unshift(value)
    \/ \E value \in Values : Push(value)
    \/ \E value \in Values : Enqueue(value)
    \/ Shift
    \/ Dequeue
    \/ Pop
    \/ First
    \/ Last
    \/ \E index \in Indexes(deque) : Get(index)
    \/ \E index \in Indexes(deque) : At(index)
    \/ \E index \in Indexes(deque), value \in Values : Set(index, value)
    \/ \E capacity \in Capacities : EnsureCapacity(capacity)
    \/ \E value \in Values : AddFirst(value)
    \/ \E value \in Values : AddLast(value)
    \/ \E value \in Values : WrapEnqueue(value)
    \/ RemoveFirst
    \/ WrapDequeue
    \/ RemoveLast
    \/ WrapFirst
    \/ WrapLast
    \/ \E index \in Indexes(deque) : WrapAt(index)

Spec == Init /\ [][Next]_vars

\* The calls of the methods that write to the buffer or replace it.
NextLayout ==
    \/ Return
    \/ \E value \in Values : Unshift(value)
    \/ \E value \in Values : Push(value)
    \/ \E value \in Values : Enqueue(value)
    \/ Shift
    \/ Dequeue
    \/ Pop
    \/ \E index \in Indexes(deque), value \in Values : Set(index, value)
    \/ \E capacity \in Capacities : EnsureCapacity(capacity)
    \/ \E value \in Values : AddFirst(value)
    \/ \E value \in Values : AddLast(value)
    \/ \E value \in Values : WrapEnqueue(value)
    \/ RemoveFirst
    \/ WrapDequeue
    \/ RemoveLast

SpecLayout == Init /\ [][NextLayout]_vars

\* ------------------------------------------ the calls on BlockingQueues

\* The deque under test of SpecQueue is not used: it stays as constructed.
InitQueue ==
    /\ variant = "wrap"
    /\ deque = wrap_constructor.this
    /\ S = <<>>
    /\ net = 0
    /\ ensured = NoneEnsured
    /\ kept = NoneKept
    /\ iterator = NoIterator
    /\ built = NotBuilt
    /\ call = [op |-> "idle", index |-> undefined, value |-> undefined,
               ret |-> undefined, throws |-> "none",
               pre |-> wrap_constructor.this, preS |-> <<>>, preNet |-> 0]
    /\ InitQueues

\* A call by the caller: w is the heap the method leaves.
QueueCalled(op, q, value, ret, w) ==
    /\ bqCall.op = "idle"
    /\ calls < MaxCalls
    /\ calls' = calls + 1
    /\ queues' = w.queues
    /\ promises' = w.promises
    /\ enqueueCalls' = w.enqueueCalls
    /\ dequeueCalls' = w.dequeueCalls
    /\ teeCalls' = w.teeCalls
    /\ bqCall' = [op |-> op, queue |-> q, value |-> value, ret |-> ret,
                  pre |-> Heap, log |-> w.log]
    /\ UNCHANGED dequeVars

\* The number of enqueue() calls the caller has made: the values are opaque
\* to the queue, and the caller's k-th enqueue() passes k, so that every value
\* is told apart from every other.
Enqueued ==
    Cardinality(UNION {{enqueueCalls[q][i] : i \in DOMAIN enqueueCalls[q]} :
                          q \in DOMAIN enqueueCalls})

QueueEnqueue(q) ==
    QueueCalled("enqueue", q, Enqueued + 1, undefined,
                BlockingQueue_enqueue(Heap, q, Enqueued + 1))

QueueDequeue(q) ==
    /\ QueueCalled("dequeue", q, undefined, Len(promises) + 1,
                   BlockingQueue_dequeue(Heap, q))

QueueTee(q) ==
    /\ QueueCalled("tee", q, undefined, Len(queues) + 1,
                   BlockingQueue_tee(Heap, q))

IteratorNext(q) ==
    /\ QueueCalled("next", q, undefined, Len(promises) + 2,
                   BlockingQueueAsyncIterator_next(Heap, q))

\* A microtask: the then() callback of a next() whose dequeue() promise is
\* fulfilled. It runs between two calls, not inside one.
IteratorThen(p) ==
    /\ bqCall.op = "idle"
    /\ promises[p].kind = "next"
    /\ promises[p].state = "pending"
    /\ promises[promises[p].source].state = "fulfilled"
    /\ promises' = BlockingQueueAsyncIterator_then(promises, p)
    /\ bqCall' = [op |-> "then", queue |-> 0, value |-> undefined, ret |-> p,
                  pre |-> Heap, log |-> <<>>]
    /\ UNCHANGED <<queues, enqueueCalls, dequeueCalls, teeCalls, calls,
                   dequeVars>>

QueueReturn ==
    /\ bqCall.op # "idle"
    /\ bqCall' = IdleQueueCall(Heap)
    /\ UNCHANGED <<queues, promises, enqueueCalls, dequeueCalls, teeCalls,
                   calls, dequeVars>>

NextQueue ==
    \/ QueueReturn
    \/ \E q \in DOMAIN queues : QueueEnqueue(q)
    \/ \E q \in DOMAIN queues : QueueDequeue(q)
    \/ \E q \in DOMAIN queues : QueueTee(q)
    \/ \E q \in DOMAIN queues : IteratorNext(q)
    \/ \E p \in DOMAIN promises : IteratorThen(p)

SpecQueue == InitQueue /\ [][NextQueue]_vars

\* The BlockingQueue of unnamed/part_003, which has neither listeners nor
\* tee(): the calls are made on the one queue constructed.
NextSingleQueue ==
    \/ QueueReturn
    \/ QueueEnqueue(1)
    \/ QueueDequeue(1)
    \/ IteratorNext(1)
    \/ \E p \in DOMAIN promises : IteratorThen(p)

SpecSingleQueue == InitQueue /\ [][NextSingleQueue]_vars

\* ------------------------- the calls that follow an ensureCapacity(n)

InitEnsure == Init /\ variant = "mask"

\* ensureCapacity(capacity), of which the caller keeps track: of capacity and
\* of the buffer length it leaves, when size does not exceed capacity.
EnsureCapacityTracked(capacity) ==
    /\ variant = "mask"
    /\ call.op = "idle"
    /\ LET r == ensureCapacity(deque, capacity)
       IN  /\ deque' = r.this
           /\ call' = Called("ensureCapacity", undefined, capacity, r)
           /\ ensured' =
                  IF r.throws = "none" /\ deque.size <= NumToInt(capacity)
                  THEN [n |-> NumToInt(capacity), capacity |-> Capacity(r.this)]
                  ELSE NoneEnsured
    /\ UNCHANGED <<variant, built, iterator, S, net, kept, queueVars>>

NextEnsure ==
    \/ Return
    \/ \E value \in Values : Unshift(value)
    \/ \E value \in Values : Push(value)
    \/ \E value \in Values : Enqueue(value)
    \/ Shift
    \/ Dequeue
    \/ Pop
    \/ \E n \in 0..MaxEnsure : EnsureCapacityTracked(Num(n))

SpecEnsure == InitEnsure /\ [][NextEnsure]_vars

\* --------------------------- the calls that return an array or a clone

ToArray == variant = "mask" /\ Read("toArray", undefined, toArray(deque))

ToJSON == variant = "mask" /\ Read("toJSON", undefined, toJSON(deque))

Iterate == variant = "mask" /\ Read("iterate", undefined, iterate(deque))

Clone == variant = "mask" /\ Read("clone", undefined, clone(deque))

WrapToArray ==
    variant = "wrap" /\ Read("wrap_toArray", undefined, wrap_toArray(deque))

WrapToJSON ==
    variant = "wrap" /\ Read("wrap_toJSON", undefined, wrap_toJSON(deque))

WrapIterate ==
    variant = "wrap"
    /\ Read("wrap_iterate", undefined,
            Ok(deque, [array |-> wrap_iterate(deque), isBuffer |-> FALSE]))

WrapClone ==
    variant = "wrap" /\ Read("wrap_clone", undefined, wrap_clone(deque))

\* The indexes of the array the caller holds.
KeptIndexes ==
    IF kept.kind = "array" THEN 0..(Len(kept.now) - 1) ELSE {}

\* array[index] = value by the caller, on the array a call has returned.
WriteArray(index, value) ==
    /\ call.op = "idle"
    /\ kept.kind = "array"
    /\ LET array == ArraySet(kept.now, index, value)
           d == IF kept.shared THEN [deque EXCEPT !._buffer = array]
                ELSE deque
       IN  /\ kept' = [kept EXCEPT !.now = array, !.was = array]
           /\ deque' = d
           /\ call' = Called("writeArray", index, value, Ok(d, undefined))
    /\ UNCHANGED <<variant, built, iterator, S, net, ensured, queueVars>>

\* The ArrayDeque d after each call of a method that changes it.
Mutations(d) ==
    IF variant = "mask"
    THEN {push(d, v).this : v \in {w \in Values : d.size < MaxSize}}
         \cup {unshift(d, v).this : v \in {w \in Values : d.size < MaxSize}}
         \cup {shift(d).this, pop(d).this}
         \cup {set(d, i, v).this : i \in (-d.size)..(d.size - 1), v \in Values}
    ELSE {addLast(d, v).this : v \in {w \in Values : d.size < MaxSize}}
         \cup {addFirst(d, v).this : v \in {w \in Values : d.size < MaxSize}}
         \cup {removeFirst(d).this, removeLast(d).this}

\* A call by the caller of a method that changes the clone a call has
\* returned.
CloneCall ==
    /\ call.op = "idle"
    /\ kept.kind = "clone"
    /\ \E c \in Mutations(kept.now) :
          LET d == IF kept.shared THEN [deque EXCEPT !._buffer = c._buffer]
                   ELSE deque
          IN  /\ kept' = [kept EXCEPT !.now = c, !.was = c]
              /\ deque' = d
              /\ call' = Called("cloneCall", undefined, undefined,
                                Ok(d, undefined))
    /\ UNCHANGED <<variant, built, iterator, S, net, ensured, queueVars>>

NextCopy ==
    \/ Return
    \/ \E value \in Values : Unshift(value)
    \/ \E value \in Values : Push(value)
    \/ Shift
    \/ Pop
    \/ \E index \in Indexes(deque), value \in Values : Set(index, value)
    \/ \E value \in Values : AddFirst(value)
    \/ \E value \in Values : AddLast(value)
    \/ RemoveFirst
    \/ RemoveLast
    \/ ToArray
    \/ ToJSON
    \/ Iterate
    \/ Clone
    \/ WrapToArray
    \/ WrapToJSON
    \/ WrapIterate
    \/ WrapClone
    \/ \E index \in KeptIndexes, value \in Values : WriteArray(index, value)
    \/ CloneCall

SpecCopy == Init /\ [][NextCopy]_vars

\* ------------------------------ the calls that go through the elements

\* The capacities the caller constructs a second ArrayDeque with.
RebuildHints == {NoCapacity} \cup {Num(n) : n \in 0..MaxHint}

RECURSIVE AddAll(_, _, _)
\* for (const value of array) d.push(value), or d.addLast(value), from the
\* i-th entry of array on.
AddAll(d, array, i) ==
    IF i > Len(array) THEN d
    ELSE AddAll(IF variant = "mask" THEN push(d, array[i]).this
                ELSE addLast(d, array[i]).this,
                array, i + 1)

\* toArray() of the class under test.
ArrayOf(d) ==
    IF variant = "mask" THEN toArray(d).ret.array ELSE wrap_toArray(d).ret.array

\* The caller builds a second ArrayDeque from deque.toArray(), one push (or
\* addLast) per entry, and calls toArray() on it.
Rebuild(hint) ==
    LET new == IF variant = "mask" THEN constructor(hint).this
               ELSE wrap_constructor.this
        rebuilt == AddAll(new, ArrayOf(deque), 1)
    IN  Read("rebuild", undefined,
             Ok(deque, [hint |-> hint, deque |-> rebuilt,
                        array |-> ArrayOf(rebuilt)]))

\* deque[Symbol.iterator]()
SymbolIterator ==
    /\ call.op = "idle"
    /\ ~iterator.active
    /\ iterator' = [active |-> TRUE,
                    _index |-> ArrayDequeIterator_constructor._index,
                    yielded |-> <<>>, dones |-> 0]
    /\ call' = Called("iterator", undefined, undefined, Ok(deque, undefined))
    /\ UNCHANGED <<variant, built, deque, S, net, ensured, kept, queueVars>>

\* iterator.next(): what it yields is appended to yielded, a report of done
\* is counted in dones.
ArrayDequeIteratorNext ==
    /\ call.op = "idle"
    /\ iterator.active
    /\ iterator.dones <= MaxDone
    /\ LET this == [_index |-> iterator._index]
           r == IF variant = "mask" THEN ArrayDequeIterator_next(this, deque)
                ELSE wrap_ArrayDequeIterator_next(this, deque)
       IN  /\ iterator' =
                  [iterator EXCEPT
                      !._index = r.this._index,
                      !.yielded = IF r.ret.done THEN @
                                  ELSE Append(@, r.ret.value),
                      !.dones = IF r.ret.done THEN @ + 1 ELSE @]
           /\ call' = Called("next", undefined, undefined, Ok(deque, r.ret))
    /\ UNCHANGED <<variant, built, deque, S, net, ensured, kept, queueVars>>

\* The caller lets go of the iterator.
IteratorRelease ==
    /\ call.op = "idle"
    /\ iterator.active
    /\ iterator' = NoIterator
    /\ UNCHANGED <<variant, built, deque, S, net, call, ensured, kept, queueVars>>

\* The deque is not modified while the caller holds an iterator.
NextIterate ==
    \/ Return
    \/ ~iterator.active /\ \E value \in Values : Unshift(value)
    \/ ~iterator.active /\ \E value \in Values : Push(value)
    \/ ~iterator.active /\ Shift
    \/ ~iterator.active /\ Pop
    \/ ~iterator.active /\ \E value \in Values : AddFirst(value)
    \/ ~iterator.active /\ \E value \in Values : AddLast(value)
    \/ ~iterator.active /\ RemoveFirst
    \/ ~iterator.active /\ RemoveLast
    \/ ~iterator.active /\ \E hint \in RebuildHints : Rebuild(hint)
    \/ SymbolIterator
    \/ ArrayDequeIteratorNext
    \/ IteratorRelease

SpecIterate == Init /\ [][NextIterate]_vars

\* ----------------------------------------------- the calls of the constructor

\* 2^k, for 0 <= k < 60
NumPow2(k) ==
    IF k < 30 THEN [hi |-> 0, lo |-> 2^k] ELSE [hi |-> 2^(k - 30), lo |-> 0]

\* The capacities the constructor is called with, and the call without one.
Hints ==
    {NoCapacity} \cup {NumPow2(k) : k \in 0..MaxExp}
                 \cup {NumPred(NumPow2(k)) : k \in 0..MaxExp}
                 \cup {NumSucc(NumPow2(k)) : k \in 0..MaxExp}

\* An ArrayDeque just constructed whose buffer, of length holes, is too long
\* to write down.
LargeDeque(length) == [size |-> 0, _head |-> 0, length |-> length]

\* No ArrayDeque has been constructed yet.
InitCapacity ==
    /\ variant = "mask"
    /\ deque = undefined
    /\ S = <<>>
    /\ net = 0
    /\ ensured = NoneEnsured
    /\ kept = NoneKept
    /\ iterator = NoIterator
    /\ built = NotBuilt
    /\ call = [op |-> "idle", index |-> undefined, value |-> undefined,
               ret |-> undefined, throws |-> "none",
               pre |-> undefined, preS |-> <<>>, preNet |-> 0]
    /\ InitQueues

\* new ArrayDeque(capacity); the call record keeps pow2Capacity as ret.
Construct(capacity) ==
    /\ call.op = "idle"
    /\ LET pow2Capacity == constructorCapacity(capacity)
           written == \/ NumLeq(pow2Capacity, Num(MaxBuffer))
                      \/ ~_assertCapacityValid(pow2Capacity)
           r == IF written THEN constructor(capacity)
                ELSE Ok(LargeDeque(pow2Capacity), undefined)
       IN  /\ deque' = r.this
           /\ call' = [op |-> "constructor", index |-> undefined,
                       value |-> capacity, ret |-> pow2Capacity,
                       throws |-> r.throws,
                       pre |-> deque, preS |-> S, preNet |-> net]
    /\ UNCHANGED <<variant, built, iterator, S, net, ensured, kept, queueVars>>

NextCapacity == \E capacity \in Hints : Construct(capacity)

SpecCapacity == InitCapacity /\ [][NextCapacity]_vars

\* ----------------------------------------------------------------- claims

\* at(index) of the class under test.
ElementAt(d, index) ==
    IF variant = "mask" THEN at(d, index).ret ELSE wrap_at(d, index).ret

Min(a, b) == IF a < b THEN a ELSE b

\* C1: on every BlockingQueue, the promise returned by the j-th dequeue() is
\* fulfilled with the value of the j-th enqueue(), for every j for which both
\* calls have been made, whatever the interleaving of the calls.
C1_FifoPairing ==
    \A q \in DOMAIN queues :
        \A j \in 1..Min(Len(enqueueCalls[q]), Len(dequeueCalls[q])) :
            /\ promises[dequeueCalls[q][j]].state = "fulfilled"
            /\ promises[dequeueCalls[q][j]].value = enqueueCalls[q][j]

\* An enqueue() has just fulfilled the promise of the second of two dequeue()
\* calls made before it, the first one having been served by an earlier one.
C1_Witness ==
    /\ bqCall.op = "enqueue"
    /\ LET q == bqCall.queue
       IN  /\ Len(dequeueCalls[q]) >= 2
           /\ Len(enqueueCalls[q]) = 2
           /\ bqCall.pre.promises[dequeueCalls[q][2]].state = "pending"
           /\ promises[dequeueCalls[q][2]].state = "fulfilled"
           /\ promises[dequeueCalls[q][1]].value # promises[dequeueCalls[q][2]].value

\* C2: in every reachable state, no BlockingQueue has both buffered values
\* and pending waiters.
C2_ValuesOrWaiters ==
    \A q \in DOMAIN queues :
        ~(queues[q]._values.size > 0 /\ queues[q]._resolves.size > 0)

\* After calls of enqueue, dequeue, next and tee, one queue holds buffered
\* values while another holds waiters.
C2_Witness ==
    /\ \E p \in DOMAIN promises : promises[p].kind = "next"
    /\ \E q1, q2 \in DOMAIN queues :
          /\ queues[q1]._values.size > 0
          /\ queues[q1]._resolves.size = 0
          /\ queues[q2]._resolves.size > 0
          /\ queues[q2]._values.size = 0
    /\ \E q \in DOMAIN queues : Len(dequeueCalls[q]) > Len(enqueueCalls[q])

\* C3: the deque refines the abstract sequence S: size is Len(S), at(i) is
\* S[i] for every 0 <= i < size, and a remove returns what the abstract
\* remove returns (undefined on the empty sequence).
C3_RefinesSequence ==
    /\ deque.size = Len(S)
    /\ \A i \in 0..(Len(S) - 1) : ElementAt(deque, i) = S[i + 1]
    /\ call.op \in RemoveFirstOps =>
           call.ret = IF call.preS = <<>> THEN undefined ELSE Head(call.preS)
    /\ call.op \in RemoveLastOps =>
           call.ret = IF call.preS = <<>> THEN undefined
                      ELSE call.preS[Len(call.preS)]

\* An insertion has grown a full deque whose elements wrapped around the end
\* of the buffer, and the elements are not all the same.
C3_Witness ==
    /\ call.op \in AddOps
    /\ Capacity(call.pre) < Capacity(deque)
    /\ Wrapped(call.pre)
    /\ \E i, j \in DOMAIN S : S[i] # S[j]

\* C4: size is the number of adds minus the number of removes, a remove on
\* the empty deque counting for nothing.
C4_SizeIsNetCount == deque.size = net

\* A remove has been called on a deque emptied after insertions grew it.
C4_Witness ==
    /\ call.op \in RemoveOps
    /\ call.preNet = 0
    /\ variant = "wrap"
    /\ Capacity(deque) >= 2

\* C5: a remove on a deque of size 0 returns undefined and leaves size, head,
\* capacity and every slot as they were.
C5_RemoveOnEmpty ==
    (call.op \in RemoveOps /\ call.pre.size = 0) =>
        /\ call.ret = undefined
        /\ deque = call.pre

\* A remove has been called on an empty deque of capacity 4 whose head is
\* not at slot 0.
C5_Witness ==
    /\ call.op \in RemoveOps
    /\ call.pre.size = 0
    /\ Capacity(call.pre) = 4
    /\ call.pre._head # 0

\* C6: at(index) / get(index) returns undefined when index < -size or
\* index >= size; otherwise it returns the logical element index (index + size
\* when negative), read from slot (head + normalized index) mod capacity; the
\* deque is left as it was.
C6_AtReadsLogicalElement ==
    call.op \in {"at", "get", "wrap_at"} =>
        LET d == call.pre
            n == Normalized(d, call.index)
        IN  /\ ~InRange(d, call.index) => call.ret = undefined
            /\ InRange(d, call.index) =>
                   /\ call.ret = ArrayGet(d._buffer, (d._head + n) % Capacity(d))
                   /\ call.ret = call.preS[n + 1]
            /\ deque = d

\* at / get has read, through a negative index, an element stored past the
\* wrap-around of the buffer.
C6_Witness ==
    /\ call.op \in {"at", "get", "wrap_at"}
    /\ call.index < 0
    /\ InRange(call.pre, call.index)
    /\ call.pre._head + Normalized(call.pre, call.index) >= Capacity(call.pre)
    /\ call.ret # undefined

\* C7: in every reachable state, at(i) = at(i - size) for every 0 <= i < size.
C7_NegativeIndexSameElement ==
    \A i \in 0..(deque.size - 1) :
        ElementAt(deque, i) = ElementAt(deque, i - deque.size)

\* at(-size) has returned the first of at least three elements, which is not
\* the last one, on a deque that wraps.
C7_Witness ==
    /\ call.op \in {"at", "get", "wrap_at"}
    /\ deque.size >= 3
    /\ call.index = -deque.size
    /\ Wrapped(deque)
    /\ call.ret = S[1]
    /\ S[1] # S[Len(S)]

\* C8: set(index, value) with index < -size or index >= size throws
\* RangeError and leaves size, head, capacity and every slot as they were.
C8_SetOutOfRangeThrows ==
    (call.op = "set" /\ ~InRange(call.pre, call.index)) =>
        /\ call.throws = "RangeError"
        /\ deque = call.pre

\* set(size, value) has been called on a full deque, where an unchecked write
\* would land on the first element.
C8_Witness ==
    /\ call.op = "set"
    /\ call.index = call.pre.size
    /\ call.pre.size = Capacity(call.pre)
    /\ call.pre.size >= 2
    /\ call.value # ElementAt(call.pre, 0)

\* C9: set(index, value) with -size <= index < size makes at(index) = value
\* and leaves every other logical element, size, head and capacity unchanged.
C9_SetReplacesOneElement ==
    (call.op = "set" /\ InRange(call.pre, call.index)) =>
        /\ call.throws = "none"
        /\ ElementAt(deque, call.index) = call.value
        /\ \A j \in 0..(call.pre.size - 1) :
               j # Normalized(call.pre, call.index) =>
                   ElementAt(deque, j) = ElementAt(call.pre, j)
        /\ deque.size = call.pre.size
        /\ deque._head = call.pre._head
        /\ Capacity(deque) = Capacity(call.pre)

\* set has replaced, through a negative index, an element of a deque that
\* wraps by a different value.
C9_Witness ==
    /\ call.op = "set"
    /\ call.index < 0
    /\ InRange(call.pre, call.index)
    /\ Wrapped(call.pre)
    /\ call.pre.size >= 3
    /\ ElementAt(call.pre, call.index) # call.value

\* C10: first() returns undefined when size = 0 and at(0) otherwise, last()
\* returns undefined when size = 0 and at(-1) otherwise, and neither changes
\* the deque.
C10_FirstLast ==
    /\ call.op \in {"first", "wrap_first"} =>
           /\ call.ret = IF call.pre.size = 0 THEN undefined
                         ELSE ElementAt(call.pre, 0)
           /\ deque = call.pre
    /\ call.op \in {"last", "wrap_last"} =>
           /\ call.ret = IF call.pre.size = 0 THEN undefined
                         ELSE ElementAt(call.pre, -1)
           /\ deque = call.pre

\* first() of the mask-based class, which does not test size, has been
\* called on a deque emptied by removals.
C10_Witness ==
    /\ call.op = "first"
    /\ variant = "mask"
    /\ call.pre.size = 0
    /\ call.pre._head # 0

\* The smallest power of two that is at least the capacity n (and at least 1).
RoundedUp(n) ==
    CHOOSE p \in {NumPow2(k) : k \in 0..(MaxExp + 1)} :
        /\ NumLeq(n, p)
        /\ \A q \in {NumPow2(k) : k \in 0..(MaxExp + 1)} :
               NumLeq(n, q) => NumLeq(p, q)

\* C11: the constructor yields a deque of size 0 and head 0 whose slots are
\* all empty and whose capacity is 16 when no hint is given and otherwise
\* the smallest power of two that is at least max(hint, 1).
C11_ConstructorCapacity ==
    (call.op = "constructor" /\ call.throws = "none") =>
        /\ call.ret = IF call.value = NoCapacity THEN Num(16)
                      ELSE RoundedUp(call.value)
        /\ deque.size = 0
        /\ deque._head = 0
        /\ IF "_buffer" \in DOMAIN deque
           THEN /\ Capacity(deque) = NumToInt(call.ret)
                /\ deque._indexMask = Capacity(deque) - 1
                /\ \A i \in 0..(Capacity(deque) - 1) :
                       ArrayGet(deque._buffer, i) = undefined
           ELSE deque.length = call.ret

\* new ArrayDeque(3) has made a deque of capacity 4.
C11_Witness ==
    /\ call.op = "constructor"
    /\ call.value = Num(3)
    /\ call.throws = "none"
    /\ Len(deque._buffer) = 4

\* C12: new ArrayDeque(hint) throws RangeError, and makes no deque, when the
\* smallest power of two that is at least the hint exceeds 2^31, and succeeds
\* otherwise.
C12_ConstructorRangeError ==
    (call.op = "constructor" /\ call.value # NoCapacity) =>
        IF NumLess([hi |-> 2, lo |-> 0], RoundedUp(call.value))   \* 2^31 < ...
        THEN call.throws = "RangeError" /\ deque = undefined
        ELSE call.throws = "none"

\* new ArrayDeque(2^31 + 1) has thrown RangeError.
C12_Witness ==
    /\ call.op = "constructor"
    /\ call.value = [hi |-> 2, lo |-> 1]     \* 2^31 + 1
    /\ call.throws = "RangeError"

IsPow2(c) == \E k \in 0..c : c = 2^k

\* C14: ensureCapacity(n) with n <= capacity changes nothing; with
\* capacity < n <= 2^31 the new capacity is the smallest capacity * 2^k,
\* k >= 1, that is at least n, so that it is at least n and a power of two.
C14_EnsureCapacityTarget ==
    (call.op = "ensureCapacity" /\ NumLeq(call.value, [hi |-> 2, lo |-> 0])) =>
        LET d == call.pre
            n == NumToInt(call.value)
        IN  /\ call.throws = "none"
            /\ n <= Capacity(d) => deque = d
            /\ n > Capacity(d) =>
                   /\ \E k \in 1..n :
                          /\ Capacity(deque) = Capacity(d) * 2^k
                          /\ k = 1 \/ Capacity(d) * 2^(k - 1) < n
                   /\ Capacity(deque) >= n
                   /\ IsPow2(Capacity(deque))

\* ensureCapacity(5) has taken a deque of capacity 1 to capacity 8, past the
\* capacities 2 and 4.
C14_Witness ==
    /\ call.op = "ensureCapacity"
    /\ call.value = Num(5)
    /\ Capacity(call.pre) = 1
    /\ call.pre.size = 1
    /\ Capacity(deque) = 8

\* C15: after ensureCapacity(n) has returned, and as long as the insertions
\* and removals that follow have not taken size above n, the capacity is the
\* one that call left.
C15_NoGrowthWithinEnsured ==
    ensured.n >= 0 => Capacity(deque) = ensured.capacity

\* After ensureCapacity(3), an insertion has brought size to 3 on a deque
\* whose head is away from slot 0.
C15_Witness ==
    /\ ensured.n = 3
    /\ deque.size = 3
    /\ call.op \in AddOps
    /\ deque._head # 0
    /\ \E i, j \in DOMAIN S : S[i] # S[j]

\* C16: ensureCapacity(n) called again right after ensureCapacity(n) has
\* returned changes nothing: size, head, capacity and every slot, hence the
\* order of the elements, are as the first call left them.
C16_EnsureCapacityIdempotent ==
    (call.op = "ensureCapacity" /\ call.throws = "none") =>
        ensureCapacity(deque, call.value) = Ok(deque, undefined)

\* ensureCapacity(n) has grown a deque to exactly n slots, relocating
\* elements that wrapped around the end of the buffer.
C16_Witness ==
    /\ call.op = "ensureCapacity"
    /\ call.throws = "none"
    /\ Wrapped(call.pre)
    /\ Capacity(call.pre) < Capacity(deque)
    /\ call.value = Num(Capacity(deque))

\* The deque d as its growth step leaves it: _resize to twice the capacity in
\* the mask-based class, _ensureCapacity(size + 1) in the other.
Grown(d) ==
    IF variant = "mask" THEN _resize(d, NumDouble(Num(Capacity(d)))).this
    ELSE _ensureCapacity(d, d.size + 1)

\* C17: an operation that increases the capacity keeps size and at(i), for
\* every 0 <= i < size, of the elements held before it: ensureCapacity as a
\* whole, and the growth step of an insertion into a full deque, whether the
\* elements wrap around the end of the buffer or not.
C17_GrowthKeepsOrder ==
    LET d == call.pre
    IN  /\ (call.op = "ensureCapacity" /\ Capacity(deque) > Capacity(d)) =>
               /\ deque.size = d.size
               /\ \A i \in 0..(d.size - 1) :
                      ElementAt(deque, i) = ElementAt(d, i)
        /\ (call.op \in AddOps /\ Capacity(deque) > Capacity(d)) =>
               /\ Capacity(Grown(d)) = Capacity(deque)
               /\ Grown(d).size = d.size
               /\ \A i \in 0..(d.size - 1) :
                      ElementAt(Grown(d), i) = ElementAt(d, i)

\* addFirst has grown a full deque of the _wrapRight-based class whose
\* elements, not all the same, wrapped around the end of the buffer.
C17_Witness ==
    /\ variant = "wrap"
    /\ call.op = "addFirst"
    /\ Capacity(deque) > Capacity(call.pre)
    /\ Wrapped(call.pre)
    /\ call.pre.size >= 2
    /\ \E i, j \in DOMAIN call.preS : call.preS[i] # call.preS[j]

\* toArray(), toJSON() and Array.from(deque) of the class under test.
Arrays(d) ==
    IF variant = "mask"
    THEN {toArray(d).ret.array, toJSON(d).ret.array, iterate(d).ret.array}
    ELSE {wrap_toArray(d).ret.array, wrap_toJSON(d).ret.array, wrap_iterate(d)}

\* C18: toArray() returns an array of length size whose entry i is at(i), for
\* every 0 <= i < size, whether the elements wrap around the end of the
\* buffer or not; toJSON() and iterating the deque give the same sequence;
\* the deque is left as it was.
C18_ToArrayIsAtSequence ==
    call.op \in {"toArray", "toJSON", "iterate",
                 "wrap_toArray", "wrap_toJSON", "wrap_iterate"} =>
        LET d == call.pre
            array == call.ret.array
        IN  /\ Len(array) = d.size
            /\ \A i \in 0..(d.size - 1) : ArrayGet(array, i) = ElementAt(d, i)
            /\ Arrays(d) = {array}
            /\ deque = d

\* toArray() has returned three elements or more, the first and the last
\* different, of a deque whose elements wrap around the end of the buffer.
C18_Witness ==
    /\ call.op = "toArray"
    /\ Wrapped(call.pre)
    /\ Len(call.ret.array) >= 3
    /\ call.ret.array[1] # call.ret.array[Len(call.ret.array)]

\* C19: the array toArray() has returned is not the buffer: an add, a remove
\* or a set called on the deque afterwards leaves the array as it was
\* returned, and a write into the array leaves the deque as it was.
C19_ToArrayDoesNotAlias ==
    /\ kept.kind = "array" => kept.now = kept.was
    /\ call.op = "writeArray" => deque = call.pre

\* set has replaced an element of a full deque whose head is at slot 0, the
\* caller holding the array toArray() has just returned on that deque.
C19_Witness ==
    /\ kept.from = "toArray"
    /\ call.op = "set"
    /\ call.pre._head = 0
    /\ call.pre.size = Capacity(call.pre)
    /\ call.pre.size >= 2
    /\ deque # call.pre

\* C20: clone() returns a deque with the size, head, capacity, index mask and
\* contents of the original and leaves the original as it was; a later call
\* that changes the original leaves the clone as it was returned, and a
\* later call that changes the clone leaves the original as it was.
C20_CloneIndependent ==
    /\ call.op \in {"clone", "wrap_clone"} =>
           /\ call.ret.clone = call.pre
           /\ deque = call.pre
    /\ kept.kind = "clone" => kept.now = kept.was
    /\ call.op = "cloneCall" => deque = call.pre

\* A call has changed the clone of a deque of two elements or more that
\* wrap around the end of the buffer.
C20_Witness ==
    /\ call.op = "cloneCall"
    /\ kept.from = "clone"
    /\ kept.now # deque
    /\ deque.size >= 2
    /\ Wrapped(deque)

\* C21: a second deque built by one addLast (push) per entry of
\* d.toArray(), in order, has the size of d and a toArray() equal to
\* d.toArray(), wherever the head of d is and whether its elements wrap around
\* the end of the buffer or not; d is left as it was.
C21_RoundTrip ==
    call.op = "rebuild" =>
        LET d == call.pre
            rebuilt == call.ret.deque
        IN  /\ rebuilt.size = d.size
            /\ call.ret.array = ArrayOf(d)
            /\ \A i \in 0..(d.size - 1) : ElementAt(rebuilt, i) = ElementAt(d, i)
            /\ deque = d

\* A deque of three elements or more that wrap around the end of the buffer,
\* the first and the last different, has been rebuilt into a deque whose
\* head is at slot 0 and whose buffer has grown on the way.
C21_Witness ==
    /\ call.op = "rebuild"
    /\ Wrapped(call.pre)
    /\ call.pre.size >= 3
    /\ call.ret.array[1] # call.ret.array[Len(call.ret.array)]
    /\ call.ret.deque._head = 0
    /\ call.ret.hint = Num(2)
    /\ Capacity(call.ret.deque) > 2

\* C22: while the deque is not modified, the k-th value the iterator yields
\* is at(k - 1), it yields size values and no more, every next() after them
\* reports done with the value undefined, and the deque is left as it was.
C22_IteratorYieldsAtSequence ==
    iterator.active =>
        /\ Len(iterator.yielded) <= deque.size
        /\ \A k \in DOMAIN iterator.yielded :
               iterator.yielded[k] = ElementAt(deque, k - 1)
        /\ iterator.dones > 0 => Len(iterator.yielded) = deque.size
        /\ call.op = "next" =>
               /\ deque = call.pre
               /\ call.ret = IF iterator.dones > 0
                             THEN [done |-> TRUE, value |-> undefined]
                             ELSE [done |-> FALSE,
                                   value |-> ElementAt(deque,
                                                 Len(iterator.yielded) - 1)]

\* next() has reported done for the second time, after the iterator has
\* yielded the three elements or more of a deque that wrap around the end of
\* the buffer.
C22_Witness ==
    /\ call.op = "next"
    /\ call.ret.done
    /\ iterator.dones >= 2
    /\ Len(iterator.yielded) >= 3
    /\ iterator.yielded[1] # iterator.yielded[Len(iterator.yielded)]
    /\ Wrapped(deque)

\* The values buffered in queue q of heap w, oldest first.
BufferedValues(w, q) == wrap_iterate(w.queues[q]._values)

\* The promises the waiters of queue q of heap w resolve, oldest first.
Waiters(w, q) == wrap_iterate(w.queues[q]._resolves)

\* The queues an enqueue() has been called on during the call that has just
\* returned, by the caller or by a listener.
EnqueuedInto ==
    {q \in DOMAIN bqCall.pre.queues :
        Len(enqueueCalls[q]) > Len(bqCall.pre.enqueueCalls[q])}

\* C23: enqueue(value) on a queue with a waiter pending removes the oldest
\* waiter and resolves its promise with value before it returns, leaving the
\* buffered values and the other waiters as they were; on a queue with no
\* waiter it appends value to the buffered values and leaves the waiters as
\* they were. This holds as well for the enqueue() a listener calls on a tee.
C23_EnqueueResolvesOrBuffers ==
    bqCall.op = "enqueue" =>
        \A q \in EnqueuedInto :
            LET pre == bqCall.pre
                value == bqCall.value
            IN  IF Waiters(pre, q) # <<>>
                THEN /\ Waiters(Heap, q) = Tail(Waiters(pre, q))
                     /\ BufferedValues(Heap, q) = BufferedValues(pre, q)
                     /\ pre.promises[Head(Waiters(pre, q))].state = "pending"
                     /\ promises[Head(Waiters(pre, q))].state = "fulfilled"
                     /\ promises[Head(Waiters(pre, q))].value = value
                     /\ \A i \in DOMAIN Waiters(Heap, q) :
                            promises[Waiters(Heap, q)[i]].state = "pending"
                ELSE /\ BufferedValues(Heap, q) =
                            Append(BufferedValues(pre, q), value)
                     /\ Waiters(Heap, q) = Waiters(pre, q)

\* enqueue() has resolved the older of two pending waiters of a queue and,
\* through a listener, buffered the value in a tee that already held one.
C23_Witness ==
    /\ bqCall.op = "enqueue"
    /\ Len(Waiters(bqCall.pre, bqCall.queue)) >= 2
    /\ Len(Waiters(Heap, bqCall.queue)) >= 1
    /\ \E t \in EnqueuedInto :
          /\ t # bqCall.queue
          /\ Len(BufferedValues(Heap, t)) >= 2

\* The promise the dequeue() of the call that has just returned has made.
DequeuePromise == IF bqCall.op = "next" THEN bqCall.ret - 1 ELSE bqCall.ret

\* C24: dequeue() on a queue with buffered values removes the oldest one and
\* returns a promise already resolved with it, adding no waiter; on a queue
\* with none it appends one waiter, the one of the promise it returns, after
\* the pending ones, the buffer stays empty and the promise is unresolved.
\* The dequeue() the iterator's next() calls is one of them.
C24_DequeueTakesOrWaits ==
    bqCall.op \in {"dequeue", "next"} =>
        LET pre == bqCall.pre
            q == bqCall.queue
            p == DequeuePromise
        IN  IF BufferedValues(pre, q) # <<>>
            THEN /\ BufferedValues(Heap, q) = Tail(BufferedValues(pre, q))
                 /\ promises[p].state = "fulfilled"
                 /\ promises[p].value = Head(BufferedValues(pre, q))
                 /\ Waiters(Heap, q) = Waiters(pre, q)
            ELSE /\ Waiters(Heap, q) = Append(Waiters(pre, q), p)
                 /\ BufferedValues(Heap, q) = <<>>
                 /\ promises[p].state = "pending"

\* dequeue() has taken the older of two buffered values of a queue, the
\* promise of an earlier dequeue() on it holding the value enqueued first.
C24_Witness ==
    /\ bqCall.op = "dequeue"
    /\ Len(BufferedValues(bqCall.pre, bqCall.queue)) >= 2
    /\ Len(dequeueCalls[bqCall.queue]) = 2
    /\ promises[dequeueCalls[bqCall.queue][1]].value
           = enqueueCalls[bqCall.queue][1]
    /\ promises[bqCall.ret].value = enqueueCalls[bqCall.queue][2]

\* The promises dequeue() has returned on queue q that are resolved with v.
DeliveredTo(q, v) ==
    {j \in DOMAIN dequeueCalls[q] :
        /\ promises[dequeueCalls[q][j]].state = "fulfilled"
        /\ promises[dequeueCalls[q][j]].value = v}

\* The places of v among the buffered values of queue q.
BufferedAt(q, v) ==
    {i \in DOMAIN BufferedValues(Heap, q) : BufferedValues(Heap, q)[i] = v}

\* C25: no promise is resolved twice, a promise dequeue() has returned is
\* resolved with a value enqueued into its queue only, and every value
\* enqueued into a queue is either resolved into exactly one of the promises
\* its dequeue() has returned or buffered there once, never both.
C25_ResolvedOnceDeliveredOnce ==
    /\ \A p \in DOMAIN promises :
          /\ promises[p].resolveCalls <= 1
          /\ promises[p].state = "fulfilled" <=> promises[p].resolveCalls = 1
    /\ \A q \in DOMAIN queues :
          /\ \A j \in DOMAIN enqueueCalls[q] :
                 Cardinality(DeliveredTo(q, enqueueCalls[q][j]))
                     + Cardinality(BufferedAt(q, enqueueCalls[q][j])) = 1
          /\ \A j \in DOMAIN dequeueCalls[q] :
                 promises[dequeueCalls[q][j]].state = "fulfilled" =>
                     \E i \in DOMAIN enqueueCalls[q] :
                         promises[dequeueCalls[q][j]].value = enqueueCalls[q][i]

\* Of three values enqueued into a queue, one has resolved a promise that
\* was pending, one a promise made resolved, and one is buffered.
C25_Witness ==
    \E q \in DOMAIN queues :
        /\ Len(enqueueCalls[q]) = 3
        /\ Len(dequeueCalls[q]) = 2
        /\ BufferedValues(Heap, q) = <<enqueueCalls[q][3]>>
        /\ bqCall.op = "dequeue"
        /\ bqCall.queue = q
        /\ bqCall.ret = dequeueCalls[q][2]
        /\ bqCall.pre.promises[dequeueCalls[q][1]].state = "fulfilled"
        /\ Len(bqCall.pre.enqueueCalls[q]) = 3

Max(a, b) == IF a > b THEN a ELSE b

\* C26: on every queue, after E enqueue() and D dequeue() calls in any
\* order, the promises of the first min(E, D) dequeue() calls are resolved
\* and the others are pending, max(0, E - D) values are buffered and
\* max(0, D - E) waiters are pending; a promise of dequeue() that was pending
\* before a call and is resolved after it has been resolved by an enqueue().
C26_ResolvedCountIsMin ==
    /\ \A q \in DOMAIN queues :
          LET E == Len(enqueueCalls[q])
              D == Len(dequeueCalls[q])
          IN  /\ \A j \in 1..D :
                     promises[dequeueCalls[q][j]].state = "fulfilled" <=> j <= E
              /\ Cardinality({j \in 1..D :
                     promises[dequeueCalls[q][j]].state = "fulfilled"})
                     = Min(E, D)
              /\ queues[q]._values.size = Max(0, E - D)
              /\ queues[q]._resolves.size = Max(0, D - E)
    /\ \A p \in DOMAIN bqCall.pre.promises :
          /\ promises[p].kind = "dequeue"
          /\ bqCall.pre.promises[p].state = "pending"
          /\ promises[p].state = "fulfilled"
          => bqCall.op = "enqueue"

\* Three dequeue() calls and two enqueue() calls have been made on a queue,
\* the last of them an enqueue() that has resolved the second promise; the
\* third one is pending.
C26_Witness ==
    /\ bqCall.op = "enqueue"
    /\ LET q == bqCall.queue
       IN  /\ Len(enqueueCalls[q]) = 2
           /\ Len(dequeueCalls[q]) = 3
           /\ bqCall.pre.promises[dequeueCalls[q][2]].state = "pending"
           /\ promises[dequeueCalls[q][2]].state = "fulfilled"
           /\ promises[dequeueCalls[q][3]].state = "pending"

\* The values enqueue() has been called with on queue q.
Received(q) == {enqueueCalls[q][i] : i \in DOMAIN enqueueCalls[q]}

RECURSIVE MadeFrom(_, _)
\* Queue u has been made by tee() from queue t, or from a queue made from t.
MadeFrom(u, t) ==
    /\ teeCalls[u].source # 0
    /\ \/ teeCalls[u].source = t
       \/ MadeFrom(teeCalls[u].source, t)

\* C27: the values a queue made by tee() has received from the original are
\* the values of the original that no dequeue() had claimed when tee() was
\* called, oldest first, followed by every value enqueued into the original
\* since, in the order of the enqueue() calls; the values claimed before the
\* tee() call are not among them. Any other value it has received has been
\* enqueued into it by the caller: no other queue has received that value,
\* except the queues made from it.
C27_TeeReceivesFromTeeOn ==
    \A t \in DOMAIN queues :
        teeCalls[t].source # 0 =>
            LET q == teeCalls[t].source
                fromOriginal(v) == v \in Received(q)
            IN  /\ SelectSeq(enqueueCalls[t], fromOriginal) =
                       SubSeq(enqueueCalls[q], teeCalls[t].claimed + 1,
                              Len(enqueueCalls[q]))
                /\ \A v \in Received(t) \ Received(q) :
                       \A u \in DOMAIN queues :
                           v \in Received(u) /\ u # t => MadeFrom(u, t)

\* tee() was called on a queue that held one buffered value, an older one
\* having been dequeued; an enqueue() on the original has just given the
\* queue made by tee() its second value.
C27_Witness ==
    /\ bqCall.op = "enqueue"
    /\ \E t \in DOMAIN queues :
          /\ teeCalls[t].source = bqCall.queue
          /\ teeCalls[t].claimed >= 1
          /\ Len(bqCall.pre.enqueueCalls[t]) = 1
          /\ Len(enqueueCalls[t]) = 2
          /\ enqueueCalls[t][1] # enqueueCalls[bqCall.queue][1]

\* C28: dequeue() on a queue leaves every other queue as it was, its buffered
\* values, its waiters and its listeners: the queues made from it by tee(),
\* and the queue it has been made from. On a queue made by tee() and on the
\* queue it has been made from alike, the promise of the n-th dequeue() is
\* resolved with the n-th value received.
C28_TeeIndependentOfSource ==
    /\ bqCall.op \in {"dequeue", "next"} =>
          \A u \in DOMAIN queues \ {bqCall.queue} :
              /\ queues[u] = bqCall.pre.queues[u]
              /\ enqueueCalls[u] = bqCall.pre.enqueueCalls[u]
              /\ dequeueCalls[u] = bqCall.pre.dequeueCalls[u]
    /\ \A t \in DOMAIN queues :
          teeCalls[t].source # 0 =>
              \A u \in {t, teeCalls[t].source} :
                  \A n \in DOMAIN dequeueCalls[u] :
                      n <= Len(enqueueCalls[u]) =>
                          promises[dequeueCalls[u][n]].value = enqueueCalls[u][n]

\* dequeue() has taken a value from the original, the queue made from it by
\* tee() holding two buffered values and keeping them; before that, a
\* dequeue() on that queue had taken a value the original still held.
C28_Witness ==
    /\ bqCall.op = "dequeue"
    /\ BufferedValues(bqCall.pre, bqCall.queue) # <<>>
    /\ \E t \in DOMAIN queues :
          /\ teeCalls[t].source = bqCall.queue
          /\ Len(BufferedValues(Heap, t)) >= 2
          /\ Len(dequeueCalls[t]) >= 1
          /\ promises[dequeueCalls[t][1]].value
                 = Head(BufferedValues(bqCall.pre, bqCall.queue))

\* The listeners of queue q before the call that has just returned.
ListenersBefore(q) == bqCall.pre.queues[q]._listeners

\* C29: within one enqueue(value), a queue hands value to its oldest waiter
\* or puts it in its buffer only after every queue made from it by tee() has
\* done so with the same value, and these do so in the order in which tee()
\* has made them; each queue does so once.
C29_TeesServedFirst ==
    bqCall.op = "enqueue" =>
        LET log == bqCall.log
        IN  /\ log # <<>>
            /\ log[Len(log)].queue = bqCall.queue
            /\ \A k \in DOMAIN log : log[k].value = bqCall.value
            /\ \A k, m \in DOMAIN log : log[k].queue = log[m].queue => k = m
            /\ \A k \in DOMAIN log :
                   LET tees == ListenersBefore(log[k].queue)
                   IN  /\ \A i \in DOMAIN tees :
                              \E m \in 1..(k - 1) : log[m].queue = tees[i]
                       /\ \A i, j \in DOMAIN tees :
                              i < j =>
                                  \A m, n \in DOMAIN log :
                                      /\ log[m].queue = tees[i]
                                      /\ log[n].queue = tees[j]
                                      => m < n

\* enqueue() on a queue with two tees and a waiter has served the tee made
\* first, then the tee made second, then its own waiter.
C29_Witness ==
    /\ bqCall.op = "enqueue"
    /\ Len(ListenersBefore(bqCall.queue)) = 2
    /\ Len(bqCall.log) = 3
    /\ bqCall.log[1].queue = ListenersBefore(bqCall.queue)[1]
    /\ bqCall.log[2].queue = ListenersBefore(bqCall.queue)[2]
    /\ bqCall.log[3].to = "waiter"
    /\ bqCall.log[1].to = "buffer"

\* C30: a next() of the iterator calls dequeue() once on its queue and on no
\* other, which removes the oldest buffered value if there is one, and
\* returns a promise made from the promise of that dequeue(); this promise
\* is resolved only once that one is, with done false and the same value,
\* which is the value of the enqueue() call of the same rank as the
\* dequeue() call; done is never true.
C30_NextIsOneDequeue ==
    /\ bqCall.op = "next" =>
          LET pre == bqCall.pre
              q == bqCall.queue
          IN  /\ Len(promises) = Len(pre.promises) + 2
              /\ dequeueCalls[q] = Append(pre.dequeueCalls[q], bqCall.ret - 1)
              /\ \A u \in DOMAIN queues \ {q} :
                     dequeueCalls[u] = pre.dequeueCalls[u]
              /\ promises[bqCall.ret].kind = "next"
              /\ promises[bqCall.ret].source = bqCall.ret - 1
              /\ promises[bqCall.ret - 1].kind = "dequeue"
              /\ BufferedValues(pre, q) # <<>> =>
                     BufferedValues(Heap, q) = Tail(BufferedValues(pre, q))
    /\ \A p \in DOMAIN promises :
          promises[p].kind = "next" =>
              /\ promises[p].done = FALSE
              /\ promises[p].state = "fulfilled" =>
                     /\ promises[promises[p].source].state = "fulfilled"
                     /\ promises[p].value = promises[promises[p].source].value
                     /\ \E q \in DOMAIN queues :
                            \E j \in DOMAIN dequeueCalls[q] :
                                /\ dequeueCalls[q][j] = promises[p].source
                                /\ j <= Len(enqueueCalls[q])
                                /\ promises[p].value = enqueueCalls[q][j]

\* The then() callback has resolved the promise of the second next() on a
\* queue with the second value enqueued; the promise of the first next()
\* holds the first value, and no value is left in the buffer.
C30_Witness ==
    /\ bqCall.op = "then"
    /\ promises[bqCall.ret].state = "fulfilled"
    /\ \E q \in DOMAIN queues :
          /\ Len(dequeueCalls[q]) >= 2
          /\ promises[bqCall.ret].source = dequeueCalls[q][2]
          /\ promises[bqCall.ret].value = enqueueCalls[q][2]
          /\ \E p \in DOMAIN promises :
                 /\ promises[p].kind = "next"
                 /\ promises[p].source = dequeueCalls[q][1]
                 /\ promises[p].state = "fulfilled"
                 /\ promises[p].value = enqueueCalls[q][1]
          /\ queues[q]._values.size = 0

\* ------------------------------------------------- the buffer's layout

\* C31: in every state the checked methods reach, 0 <= size <= capacity and
\* 0 <= _head < capacity, the capacity being the length of the buffer.
C31_SizeAndHeadInRange ==
    /\ 0 <= deque.size
    /\ deque.size <= Capacity(deque)
    /\ 0 <= deque._head
    /\ deque._head < Capacity(deque)

\* A removal at the front of a full buffer whose head is in the last slot:
\* the head wraps around to slot 0.
C31_Witness ==
    /\ call.op \in {"shift", "removeFirst"}
    /\ call.pre._head = Capacity(call.pre) - 1
    /\ call.pre.size = Capacity(call.pre)
    /\ Capacity(deque) >= 2
    /\ deque._head = 0

\* x mod c, for -c <= x < 2 * c: the r in 0 .. c - 1 that differs from x by a
\* multiple of c.
Mod(x, c) == CHOOSE r \in 0..(c - 1) : \E k \in {-1, 0, 1} : x = k * c + r

\* The index expressions the mask-based class masks: _head - 1 (unshift),
\* _head + 1 (shiftUnchecked), _head + size (push), _head + size - 1 (last,
\* popUnchecked), and _head + i for the indexes 0 <= i < size (get, set,
\* toArray, the iterator).
IndexExpressions(d) ==
    {d._head - 1, d._head + 1, d._head + d.size, d._head + d.size - 1}
        \cup {d._head + i : i \in 0..(d.size - 1)}

\* C32: in the mask-based class the capacity is a power of two, at least 1,
\* and _indexMask is _buffer.length - 1, so that x & _indexMask is x mod
\* capacity for every index expression the methods mask, _head - 1 with the
\* head at 0 and _head + size - 1 with size 0 included.
C32_MaskIsModCapacity ==
    variant = "mask" =>
        /\ Capacity(deque) >= 1
        /\ IsPow2(Capacity(deque))
        /\ deque._indexMask = Capacity(deque) - 1
        /\ \A x \in IndexExpressions(deque) :
               BitAnd(x, deque._indexMask) = Mod(x, Capacity(deque))

\* unshift on an empty deque of at least two slots whose head is 0: both
\* _head - 1 and _head + size - 1 are -1 there, and the new head is the last
\* slot.
C32_Witness ==
    /\ call.op = "unshift"
    /\ call.pre._head = 0
    /\ call.pre.size = 0
    /\ Capacity(call.pre) >= 2
    /\ deque._head = Capacity(deque) - 1
    /\ -1 \in IndexExpressions(call.pre)

\* The slots of the live range of d: (_head + i) mod capacity, 0 <= i < size.
LiveSlots(d) == {Mod(d._head + i, Capacity(d)) : i \in 0..(d.size - 1)}

\* The slots of d that hold the empty marker.
EmptySlots(d) ==
    {slot \in 0..(Capacity(d) - 1) : ArrayGet(d._buffer, slot) = undefined}

\* C33: every slot outside the live range holds the empty marker: a removal
\* clears the slot it vacates, and a growth leaves no copy of an element
\* behind, so that exactly size slots are not empty.
C33_SlotsOutsideLiveRangeEmpty ==
    /\ \A slot \in 0..(Capacity(deque) - 1) :
           slot \notin LiveSlots(deque) => slot \in EmptySlots(deque)
    /\ Cardinality(EmptySlots(deque)) = Capacity(deque) - deque.size
    /\ (call.op \in RemoveFirstOps /\ call.pre.size > 0) =>
           call.pre._head \in EmptySlots(deque)
    /\ (call.op \in RemoveLastOps /\ call.pre.size > 0) =>
           Mod(call.pre._head + call.pre.size - 1, Capacity(call.pre))
               \in EmptySlots(deque)

\* An insertion has grown a full buffer whose elements wrapped around its
\* end, in the class that relocates them within the same array.
C33_Witness ==
    /\ variant = "wrap"
    /\ call.op \in AddOps
    /\ Wrapped(call.pre)
    /\ call.pre.size >= 2
    /\ Capacity(deque) > Capacity(call.pre)
    /\ Cardinality(EmptySlots(deque)) >= 1

\* The slots a growth from d has added to the buffer.
AddedSlots(d) == Capacity(d)..(Capacity(deque) - 1)

\* C34: a growth of a buffer whose elements do not wrap around its end leaves
\* the head where it was and every element in its slot, and only extends the
\* buffer with empty slots: ensureCapacity as a whole, and an insertion into
\* a full buffer up to the one slot the insertion then writes.
C34_GrowthNotWrapped ==
    LET d == call.pre
    IN  (Capacity(deque) > Capacity(d) /\ ~Wrapped(d)) =>
            /\ \A slot \in 0..(Capacity(d) - 1) :
                   ArrayGet(deque._buffer, slot) = ArrayGet(d._buffer, slot)
            /\ call.op = "ensureCapacity" =>
                   /\ deque._head = d._head
                   /\ AddedSlots(d) \subseteq EmptySlots(deque)
            /\ call.op \in {"push", "enqueue", "addLast", "wrap_enqueue"} =>
                   /\ deque._head = d._head
                   /\ ArrayGet(deque._buffer, d._head + d.size) = call.value
                   /\ AddedSlots(d) \ {d._head + d.size}
                          \subseteq EmptySlots(deque)
            /\ call.op \in {"unshift", "addFirst"} =>
                   /\ deque._head = Mod(d._head - 1, Capacity(deque))
                   /\ ArrayGet(deque._buffer, deque._head) = call.value
                   /\ AddedSlots(d) \ {deque._head} \subseteq EmptySlots(deque)

\* ensureCapacity has grown a buffer whose elements start after slot 0 and do
\* not wrap around.
C34_Witness ==
    /\ call.op = "ensureCapacity"
    /\ Capacity(deque) > Capacity(call.pre)
    /\ ~Wrapped(call.pre)
    /\ call.pre._head > 0
    /\ call.pre.size >= 2
    /\ deque._head = call.pre._head

\* g holds the elements of d from slot 0 on: its head is 0, logical element i
\* of d is in slot i, and every other slot is empty.
RelocatedToFront(g, d) ==
    /\ g._head = 0
    /\ \A i \in 0..(d.size - 1) : ArrayGet(g._buffer, i) = ElementAt(d, i)
    /\ d.size..(Capacity(g) - 1) \subseteq EmptySlots(g)

\* g holds the elements of d as _ensureCapacity of src/ArrayDeque.ts leaves
\* them: those from the head to the end of d's buffer are in the last slots
\* of g's buffer, where the head now is, those that had wrapped around are in
\* the slots they were in, and every other slot is empty.
RelocatedToBack(g, d) ==
    LET relocateCount == Capacity(d) - d._head
    IN  /\ g._head = Capacity(g) - relocateCount
        /\ \A i \in 0..(relocateCount - 1) :
               ArrayGet(g._buffer, g._head + i) = ElementAt(d, i)
        /\ \A i \in relocateCount..(d.size - 1) :
               /\ ArrayGet(g._buffer, i - relocateCount) = ElementAt(d, i)
               /\ ArrayGet(d._buffer, i - relocateCount) = ElementAt(d, i)
        /\ (d.size - relocateCount)..(g._head - 1) \subseteq EmptySlots(g)

\* The slots in which the buffers of g and h differ.
SlotsChanged(g, h) ==
    {slot \in 0..(Capacity(g) - 1) :
        ArrayGet(g._buffer, slot) # ArrayGet(h._buffer, slot)}

\* The call has grown a buffer whose elements wrapped around its end, and
\* Layout(g, d) holds of the deque g the growth has made of d: the deque
\* ensureCapacity leaves, or the deque an insertion's growth step leaves, in
\* which the insertion then writes one slot.
WrappedGrowthLeaves(Layout(_, _)) ==
    LET d == call.pre
    IN  (Capacity(deque) > Capacity(d) /\ Wrapped(d)) =>
            /\ call.op = "ensureCapacity" => Layout(deque, d)
            /\ call.op \in AddOps =>
                   /\ Layout(Grown(d), d)
                   /\ Capacity(Grown(d)) = Capacity(deque)
                   /\ Cardinality(SlotsChanged(deque, Grown(d))) = 1

InitFill ==
    /\ variant \in {"mask", "wrap"}
    /\ \E hint \in 0..MaxHint :
         LET r == IF variant = "mask" THEN constructor(Num(hint))
                  ELSE wrap_constructor
             given == IF variant = "mask" THEN hint ELSE undefined
         IN  /\ deque = r.this
             /\ call = [op |-> "constructor", index |-> undefined,
                        value |-> given, ret |-> undefined,
                        throws |-> r.throws,
                        pre |-> r.this, preS |-> <<>>, preNet |-> 0]
             /\ built = [tracked |-> TRUE, capacity |-> given]
    /\ S = <<>>
    /\ net = 0
    /\ ensured = NoneEnsured
    /\ kept = NoneKept
    /\ iterator = NoIterator
    /\ InitQueues

\* unshift / addFirst on a deque of fewer than MaxFill elements.
FillFirst(value) ==
    /\ call.op = "idle"
    /\ Len(S) < MaxFill
    /\ LET r == IF variant = "mask" THEN unshift(deque, value)
                ELSE addFirst(deque, value)
       IN  /\ deque' = r.this
           /\ S' = IF r.throws = "none" THEN <<value>> \o S ELSE S
           /\ net' = IF r.throws = "none" THEN net + 1 ELSE net
           /\ call' = Called(IF variant = "mask" THEN "unshift"
                             ELSE "addFirst", undefined, value, r)
    /\ UNCHANGED <<variant, built, iterator, ensured, kept, queueVars>>

\* push / addLast on a deque of fewer than MaxFill elements.
FillLast(value) ==
    /\ call.op = "idle"
    /\ Len(S) < MaxFill
    /\ LET r == IF variant = "mask" THEN push(deque, value)
                ELSE addLast(deque, value)
       IN  /\ deque' = r.this
           /\ S' = IF r.throws = "none" THEN Append(S, value) ELSE S
           /\ net' = IF r.throws = "none" THEN net + 1 ELSE net
           /\ call' = Called(IF variant = "mask" THEN "push" ELSE "addLast",
                             undefined, value, r)
    /\ UNCHANGED <<variant, built, iterator, ensured, kept, queueVars>>

NextFill ==
    \/ Return
    \/ \E value \in Values : FillFirst(value)
    \/ \E value \in Values : FillLast(value)
    \/ Shift
    \/ Pop
    \/ RemoveFirst
    \/ RemoveLast

SpecFill == InitFill /\ [][NextFill]_vars

\* C36: an insertion changes the capacity only when size equals the capacity
\* before it, and then the capacity exactly doubles; a deque constructed with
\* the capacity 3 has the capacity 4 during its first four insertions and 8
\* after the fifth, which leaves the four elements held before it in order.
C36_InsertionDoublesWhenFull ==
    LET d == call.pre
    IN  /\ call.op \in AddOps =>
               Capacity(deque) = IF d.size = Capacity(d)
                                 THEN 2 * Capacity(d)
                                 ELSE Capacity(d)
        /\ (variant = "mask" /\ built.tracked /\ built.capacity = 3) =>
               /\ deque.size <= 4 => Capacity(deque) = 4
               /\ deque.size = 5 =>
                      /\ Capacity(deque) = 8
                      /\ call.op = "push" =>
                             \A i \in 0..3 :
                                 ElementAt(deque, i) = ElementAt(d, i)
                      /\ call.op = "unshift" =>
                             \A i \in 0..3 :
                                 ElementAt(deque, i + 1) = ElementAt(d, i)

\* The fifth insertion into a deque constructed with the capacity 3, whose
\* four elements, not all the same, wrapped around the end of the buffer.
C36_Witness ==
    /\ variant = "mask"
    /\ built.tracked
    /\ built.capacity = 3
    /\ call.op = "push"
    /\ deque.size = 5
    /\ Capacity(call.pre) = 4
    /\ Capacity(deque) = 8
    /\ Wrapped(call.pre)
    /\ \E i, j \in DOMAIN call.preS : call.preS[i] # call.preS[j]

\* C37: the capacity never decreases: no step, whether an insertion, a
\* removal, a read, set or ensureCapacity, leaves a buffer shorter than the
\* one it found.
C37_CapacityNeverDecreases ==
    [][Capacity(deque') >= Capacity(deque)]_vars

\* A removal has emptied a deque whose buffer has four slots or more, and
\* the buffer is as long as before.
C37_Witness ==
    /\ call.op \in RemoveOps
    /\ call.pre.size = 1
    /\ deque.size = 0
    /\ Capacity(call.pre) >= 4
    /\ Capacity(deque) = Capacity(call.pre)

\* --------------------------------- the unchecked methods, as documented

\* The caller calls the unchecked methods of the mask-based class where their
\* documentation allows: an index within -size .. size - 1 (0 .. size - 1
\* for the NonNegative ones), a non-empty deque for the others.

FirstUnchecked ==
    deque.size > 0 /\ Read("firstUnchecked", undefined, firstUnchecked(deque))

LastUnchecked ==
    deque.size > 0 /\ Read("lastUnchecked", undefined, lastUnchecked(deque))

ShiftUnchecked ==
    deque.size > 0 /\ DeleteFirst("shiftUnchecked", shiftUnchecked(deque))

DequeueUnchecked ==
    deque.size > 0 /\ DeleteFirst("dequeueUnchecked", dequeueUnchecked(deque))

PopUnchecked ==
    deque.size > 0 /\ DeleteLast("popUnchecked", popUnchecked(deque))

GetUnchecked(index) ==
    InRange(deque, index) /\ Read("getUnchecked", index, getUnchecked(deque, index))

GetNonNegativeUnchecked(index) ==
    /\ index >= 0
    /\ index < deque.size
    /\ Read("getNonNegativeUnchecked", index,
            getNonNegativeUnchecked(deque, index))

\* A write of value at index: r is the method's result.
WriteAt(op, index, value, r) ==
    /\ call.op = "idle"
    /\ deque' = r.this
    /\ S' = [S EXCEPT ![Normalized(deque, index) + 1] = value]
    /\ call' = Called(op, index, value, r)
    /\ kept' = Seen(kept, r.this)
    /\ UNCHANGED <<variant, built, iterator, net, ensured, queueVars>>

SetUnchecked(index, value) ==
    /\ InRange(deque, index)
    /\ WriteAt("setUnchecked", index, value, setUnchecked(deque, index, value))

SetNonNegativeUnchecked(index, value) ==
    /\ index >= 0
    /\ index < deque.size
    /\ WriteAt("setNonNegativeUnchecked", index, value,
               setNonNegativeUnchecked(deque, index, value))

NextUnchecked ==
    \/ Return
    \/ \E value \in Values : Unshift(value)
    \/ \E value \in Values : Push(value)
    \/ FirstUnchecked
    \/ LastUnchecked
    \/ ShiftUnchecked
    \/ DequeueUnchecked
    \/ PopUnchecked
    \/ \E index \in Indexes(deque) : GetUnchecked(index)
    \/ \E index \in Indexes(deque) : GetNonNegativeUnchecked(index)
    \/ \E index \in Indexes(deque), value \in Values :
           SetUnchecked(index, value)
    \/ \E index \in Indexes(deque), value \in Values :
           SetNonNegativeUnchecked(index, value)

SpecUnchecked == InitEnsure /\ [][NextUnchecked]_vars

\* What the call that has just returned has left: the object, the value
\* returned, and what was thrown.
Outcome == [this |-> deque, ret |-> call.ret, throws |-> call.throws]

\* C38: called within its documented precondition, an unchecked method
\* returns what the checked method returns and leaves the deque as the
\* checked method leaves it: getUnchecked and setUnchecked for
\* -size <= index < size, the NonNegative ones for 0 <= index < size, and
\* shiftUnchecked, dequeueUnchecked, popUnchecked, firstUnchecked and
\* lastUnchecked on a deque that is not empty; the values returned are those
\* of the abstract sequence.
C38_UncheckedAgreesWithChecked ==
    LET d == call.pre
        at_index == call.preS[Normalized(d, call.index) + 1]
    IN  /\ call.op \in {"getUnchecked", "getNonNegativeUnchecked"} =>
               /\ Outcome = get(d, call.index)
               /\ call.ret = at_index
        /\ call.op \in {"setUnchecked", "setNonNegativeUnchecked"} =>
               /\ Outcome = set(d, call.index, call.value)
               /\ call.throws = "none"
               /\ ElementAt(deque, Normalized(d, call.index)) = call.value
        /\ call.op = "shiftUnchecked" =>
               Outcome = shift(d) /\ call.ret = Head(call.preS)
        /\ call.op = "dequeueUnchecked" =>
               Outcome = dequeue(d) /\ call.ret = Head(call.preS)
        /\ call.op = "popUnchecked" =>
               Outcome = pop(d) /\ call.ret = call.preS[Len(call.preS)]
        /\ call.op = "firstUnchecked" =>
               Outcome = first(d) /\ call.ret = Head(call.preS)
        /\ call.op = "lastUnchecked" =>
               Outcome = last(d) /\ call.ret = call.preS[Len(call.preS)]

\* getUnchecked with a negative index on a deque whose elements, not all the
\* same, wrap around the end of a buffer they do not fill.
C38_Witness ==
    /\ call.op = "getUnchecked"
    /\ call.index < 0
    /\ Wrapped(call.pre)
    /\ call.pre.size >= 2
    /\ call.pre.size < Capacity(call.pre)
    /\ call.ret # call.preS[1]

\* ------------------- the capacities of the first version (shift operator)

\* The capacities the constructor is called with: 2^k - 1, 2^k and 2^k + 1
\* for k in 0..MaxShift, up to 2^31.
ShiftHints ==
    {n \in {NumPow2(k) : k \in 0..MaxShift}
               \cup {NumPred(NumPow2(k)) : k \in 0..MaxShift}
               \cup {NumSucc(NumPow2(k)) : k \in 0..MaxShift} :
        NumLeq(n, [hi |-> 2, lo |-> 0])}

\* The lengths of the full buffers an insertion is made into: 2^k up to 2^31.
ShiftLengths ==
    {n \in {NumPow2(k) : k \in 0..MaxShift} : NumLeq(n, [hi |-> 2, lo |-> 0])}

\* No ArrayDeque has been constructed yet.
InitShift ==
    /\ variant = "mask"
    /\ deque = undefined
    /\ S = <<>>
    /\ net = 0
    /\ ensured = NoneEnsured
    /\ kept = NoneKept
    /\ iterator = NoIterator
    /\ built = NotBuilt
    /\ call = [op |-> "idle", pc |-> "idle", index |-> 0, value |-> Num(0),
               ret |-> 0, throws |-> "none"]
    /\ InitQueues

\* new ArrayDeque(capacity) is entered: pow2Capacity = 1. The call record
\* keeps pow2Capacity as ret and the number of turns of the loop as index.
ShiftConstruct(capacity) ==
    /\ call.op = "idle"
    /\ call' = [op |-> "constructor", pc |-> "while", index |-> 0,
                value |-> capacity, ret |-> 1, throws |-> "none"]
    /\ UNCHANGED <<variant, built, iterator, deque, S, net, ensured, kept,
                   queueVars>>

\* One turn of while (pow2Capacity < capacity) pow2Capacity <<= 1. The turns
\* are counted up to MaxTurns.
ShiftLoop ==
    /\ call.op = "constructor"
    /\ call.pc = "while"
    /\ Less32(call.ret, call.value)
    /\ call.index < MaxTurns
    /\ call' = [call EXCEPT !.ret = ShiftLeft1(call.ret),
                            !.index = call.index + 1]
    /\ UNCHANGED <<variant, built, iterator, deque, S, net, ensured, kept,
                   queueVars>>

\* The loop is left: new Array(pow2Capacity), and the constructor returns.
ShiftNew ==
    /\ call.op = "constructor"
    /\ call.pc = "while"
    /\ ~Less32(call.ret, call.value)
    /\ deque' = LargeDeque(Num(call.ret))
    /\ call' = [call EXCEPT !.pc = "returned"]
    /\ UNCHANGED <<variant, built, iterator, S, net, ensured, kept,
                   queueVars>>

\* The caller has a full buffer of the given length, whose elements start
\* at slot 0; a buffer of that many slots is not written down.
ShiftFull(length) ==
    /\ call.op = "idle"
    /\ deque' = [size |-> length, _head |-> Num(0), length |-> length]
    /\ call' = [op |-> "full", pc |-> "returned", index |-> 0,
                value |-> length, ret |-> 0, throws |-> "none"]
    /\ UNCHANGED <<variant, built, iterator, S, net, ensured, kept,
                   queueVars>>

\* addFirst / addLast on that buffer: _resizeTo(this._buffer.length << 1),
\* in which this._buffer.length = pow2Capacity throws RangeError when
\* pow2Capacity is negative and leaves no slot when it is 0, then the write
\* of the element at index (_head - 1) & _indexMask or (_head + size) &
\* _indexMask, which with no slot left and a mask of -1 is negative (-1 or
\* -2^31) and names a property, not a slot: _head is a number or -1. The
\* call record keeps the argument of _resizeTo as ret.
ShiftGrow(op) ==
    /\ call.op = "full"
    /\ LET length == deque.length
           pow2Capacity == ShiftLeft1(ToInt32(length))
       IN  /\ call' = [op |-> op, pc |-> "returned", index |-> 0,
                       value |-> length, ret |-> pow2Capacity,
                       throws |-> IF pow2Capacity < 0 THEN "RangeError"
                                  ELSE "none"]
           /\ deque' =
                IF pow2Capacity < 0 THEN deque
                ELSE IF pow2Capacity = 0
                THEN [size |-> NumSucc(length),
                      _head |-> IF op = "addFirst" THEN -1 ELSE Num(0),
                      length |-> Num(0)]
                ELSE [size |-> NumSucc(length),
                      _head |-> IF op = "addFirst"
                                THEN NumPred(Num(pow2Capacity))
                                ELSE Num(0),
                      length |-> Num(pow2Capacity)]
    /\ UNCHANGED <<variant, built, iterator, S, net, ensured, kept,
                   queueVars>>

NextShift ==
    \/ \E capacity \in ShiftHints : ShiftConstruct(capacity)
    \/ ShiftLoop
    \/ ShiftNew
    \/ \E length \in ShiftLengths : ShiftFull(length)
    \/ \E op \in {"addFirst", "addLast"} : ShiftGrow(op)

SpecShift == InitShift /\ [][NextShift]_vars

\* C39: with the 32-bit shift, for every capacity 0 <= n <= 2^31 the
\* constructor's loop terminates (pow2Capacity stays a positive power of two
\* that is at most the smallest one >= n, so that it is doubled 31 times at
\* most) with the smallest power of two that is at least max(n, 1); and
\* doubling the length of a full buffer yields a positive power of two,
\* twice the length.
C39_ShiftYieldsPowerOfTwo ==
    /\ call.op = "constructor" =>
           /\ call.ret > 0
           /\ call.index <= 31
           /\ \E k \in 0..30 : call.ret = 2^k
           /\ NumLeq(Num(call.ret), RoundedUp(call.value))
           /\ call.pc = "returned" => Num(call.ret) = RoundedUp(call.value)
    /\ call.op \in {"addFirst", "addLast"} =>
           /\ call.ret > 0
           /\ Num(call.ret) = NumDouble(call.value)

\* ------------------------- the calls, class with head and tail indexes

\* The most elements the buffer of a new ArrayDeque holds: one slot stays
\* free.
Edge == Len(tail_constructor.this._buffer) - 1

InitTail ==
    /\ variant = "tail"
    /\ deque = tail_constructor.this
    /\ call = [op |-> "constructor", index |-> undefined, value |-> undefined,
               ret |-> undefined, throws |-> "none",
               pre |-> tail_constructor.this, preS |-> <<>>, preNet |-> 0]
    /\ S = <<>>
    /\ net = 0
    /\ ensured = NoneEnsured
    /\ kept = NoneKept
    /\ iterator = NoIterator
    /\ built = NotBuilt
    /\ InitQueues

TailAddFirst(value) ==
    /\ call.op = "idle"
    /\ calls < MaxTailCalls
    /\ LET r == tail_addFirst(deque, value)
       IN  /\ deque' = r.this
           /\ call' = Called("tail_addFirst", undefined, value, r)
    /\ S' = <<value>> \o S
    /\ net' = net + 1
    /\ calls' = calls + 1
    /\ UNCHANGED <<variant, built, iterator, ensured, kept, queues, promises,
                   enqueueCalls, dequeueCalls, teeCalls, bqCall>>

TailAddLast(value) ==
    /\ call.op = "idle"
    /\ calls < MaxTailCalls
    /\ LET r == tail_addLast(deque, value)
       IN  /\ deque' = r.this
           /\ call' = Called("tail_addLast", undefined, value, r)
    /\ S' = Append(S, value)
    /\ net' = net + 1
    /\ calls' = calls + 1
    /\ UNCHANGED <<variant, built, iterator, ensured, kept, queues, promises,
                   enqueueCalls, dequeueCalls, teeCalls, bqCall>>

TailRemoveFirst ==
    /\ call.op = "idle"
    /\ calls < MaxTailCalls
    /\ LET r == tail_removeFirst(deque)
       IN  /\ deque' = r.this
           /\ call' = Called("tail_removeFirst", undefined, undefined, r)
    /\ S' = IF S = <<>> THEN S ELSE Tail(S)
    /\ net' = IF net = 0 THEN 0 ELSE net - 1
    /\ calls' = calls + 1
    /\ UNCHANGED <<variant, built, iterator, ensured, kept, queues, promises,
                   enqueueCalls, dequeueCalls, teeCalls, bqCall>>

TailRemoveLast ==
    /\ call.op = "idle"
    /\ calls < MaxTailCalls
    /\ LET r == tail_removeLast(deque)
       IN  /\ deque' = r.this
           /\ call' = Called("tail_removeLast", undefined, undefined, r)
    /\ S' = IF S = <<>> THEN S ELSE Front(S)
    /\ net' = IF net = 0 THEN 0 ELSE net - 1
    /\ calls' = calls + 1
    /\ UNCHANGED <<variant, built, iterator, ensured, kept, queues, promises,
                   enqueueCalls, dequeueCalls, teeCalls, bqCall>>

RECURSIVE AddLastTimes(_, _, _)
\* for (i = 0; i < n; i++) d.addLast(value), the calls being made half by
\* half; the tests have the buffer that each call and each half leaves
\* evaluated before the next is made.
AddLastTimes(d, value, n) ==
    IF n <= 0 THEN d
    ELSE IF n = 1
    THEN LET t == tail_addLast(d, value).this
         IN  IF t._buffer # <<>> THEN t ELSE d
    ELSE LET half == AddLastTimes(d, value, n \div 2)
         IN  IF half._buffer # <<>>
             THEN AddLastTimes(half, value, n - n \div 2)
             ELSE d

\* The caller's loop of addLast(value) calls on the new deque, until it
\* holds Edge elements; the calls of the loop are not counted.
TailFill(value) ==
    /\ call.op = "constructor"
    /\ LET n == Edge
           r == Ok(AddLastTimes(deque, value, n), undefined)
       IN  /\ deque' = r.this
           /\ call' = Called("tail_fill", undefined, value, r)
           /\ S' = [i \in 1..n |-> value]
           /\ net' = n
    /\ UNCHANGED <<variant, built, iterator, ensured, kept, queueVars>>

NextTail ==
    \/ Return
    \/ \E value \in Values : TailAddFirst(value)
    \/ \E value \in Values : TailAddLast(value)
    \/ TailRemoveFirst
    \/ TailRemoveLast
    \/ \E value \in Values : TailFill(value)

SpecTail == InitTail /\ [][NextTail]_vars

\* C40: in the class with head and tail indexes, _head = _tail exactly when
\* the deque is empty; an add that would make them meet grows the buffer
\* first, to twice its length, and no other add grows it; size() is at most
\* capacity - 1 and is the number of elements stored; and _tail is
\* (_head + size()) mod capacity, also right after a growth.
C40_HeadTailMeetOnlyWhenEmpty ==
    LET c == Capacity(deque)
        n == tail_size(deque)
        d == call.pre
    IN  /\ (deque._head = deque._tail) <=> (Len(S) = 0)
        /\ n <= c - 1
        /\ n = Len(S)
        /\ n = Cardinality({i \in DOMAIN deque._buffer :
                               deque._buffer[i] # undefined})
        /\ deque._tail = Mod(deque._head + n, c)
        /\ call.op \in {"tail_addFirst", "tail_addLast"} =>
               /\ Capacity(deque) = IF tail_size(d) = Capacity(d) - 1
                                    THEN 2 * Capacity(d)
                                    ELSE Capacity(d)
               /\ deque._head # deque._tail
               /\ \A i \in {0, 1, n - 2, n - 1} \cap 0..(n - 1) :
                      tail_at(deque, i).ret = S[i + 1]

\* addFirst on a deque that holds capacity - 1 elements, which wrap around
\* the end of the buffer: the buffer has grown to twice its length, the
\* elements before the end have moved to the end of the new buffer, and the
\* deque holds one element more.
C40_Witness ==
    /\ call.op = "tail_addFirst"
    /\ tail_size(call.pre) = Capacity(call.pre) - 1
    /\ call.pre._tail < call.pre._head
    /\ call.pre._tail > 0
    /\ Capacity(deque) = 2 * Capacity(call.pre)
    /\ deque._head = Capacity(deque) - (Capacity(call.pre) - call.pre._head) - 1
    /\ deque._tail = call.pre._tail
    /\ tail_size(deque) = Capacity(call.pre)

====
